---- MODULE Spec2Model ----
(***************************************************************************)
(* The scout-cron orchestrator of open-scouts                              *)
(* (supabase/functions/scout-cron/index.ts): one HTTP invocation runs the  *)
(* stuck-execution cleanup, the inactive-user sweep, the selection of the  *)
(* scouts to run and their parallel execution, and answers with a report.  *)
(* Several invocations may overlap; they share the store (scouts,          *)
(* scout_executions, auth.users).  Every awaited store call is one atomic  *)
(* step; the synchronous code between two awaits belongs to the step of    *)
(* the await that precedes it.  Time is counted in minutes.                *)
(***************************************************************************)
EXTENDS Integers, Sequences, FiniteSets, TLC

VARIABLES
  now,          \* the wall clock, Date.now(), in minutes
  authUsers,    \* auth.users: user id -> [exists, last_sign_in_at]
  scouts,       \* table scouts: scout id -> row
  executions,   \* table scout_executions: sequence of rows, the id is the index
  pc,           \* per invocation: the await the handler is suspended at
  req,          \* per invocation: the request's scoutId parameter
  stuck,        \* per invocation: stuckExecutions and the loop position in it
  sweep,        \* per invocation: thirtyDaysAgo, uniqueUserIds, position, inactiveUserIds,
                \* and the rows its bulk update was applied to (history)
  scoutsToRun,  \* per invocation: the run set
  inv,          \* per invocation: the promises of executeScoutAgent, per scout
  response,     \* per invocation: the Response returned, or NoResponse
  faults,       \* per invocation: the store calls of it that failed (history)
  stages,       \* per invocation: the stages entered, in order (history)
  faultBudget,  \* store failures still to be injected
  preferences,  \* table user_preferences: user id -> row
  slack,        \* per call of sendSlackNotification: its position and what it did
  callback,     \* per request of the auth callback: its position and what it did
  testSlack,    \* per request of send-test-slack: its position and what it did
  nowMs         \* the wall clock of send-test-slack, Date.now(), in milliseconds

vars == <<now, authUsers, scouts, executions, pc, req, stuck, sweep, scoutsToRun,
          inv, response, faults, stages, faultBudget, preferences, slack, callback,
          testSlack, nowMs>>

\* the state of the scout-cron handler (index.ts)
cron == <<now, authUsers, scouts, executions, pc, req, stuck, sweep, scoutsToRun,
          inv, response, faults, stages, faultBudget>>

\* the state outside the scout-cron handler: it reads and writes none of it
collaborators == <<preferences, slack, callback, testSlack, nowMs>>

\* the state of the send-test-slack route other than user_preferences
route == <<testSlack, nowMs>>

(***************************************************************************)
(* Bounds of the model.                                                    *)
(***************************************************************************)
MaxTicks == 1
MaxFaults == 1

(***************************************************************************)
(* Program constants.                                                      *)
(***************************************************************************)
ThreeMinutes == 3
ThirtyDays == 30 * 24 * 60
HourlyInterval == 60
DailyInterval == 24 * 60
NoTime == 0 - 1
TimeoutMessage == "Execution timed out after 3 minutes (Supabase Edge Function limit)"

T0 == ThirtyDays + 10

Cycles == {"c1", "c2"}
Users == {"u1", "u2", "u3", "u4"}
ScoutIds == {1, 2, 3, 4, 5}
\* the scoutId query parameter: absent (a cron trigger), or an id, known or not
NoScoutId == 0
RequestIds == {NoScoutId} \cup ScoutIds \cup {9}
\* the requests of the overlapping invocations: cron triggers, or scout 1 by hand
OverlapRequestIds == {NoScoutId, 1}

(***************************************************************************)
(* Rows.                                                                   *)
(***************************************************************************)
ConfigFields == {"title", "goal", "description", "location", "search_queries", "frequency"}

\* a scout row whose configuration is complete except for the field `missing`
ScoutRow(id, user, active, missing) ==
  [id |-> id, user_id |-> user, is_active |-> active,
   title |-> IF missing = "title" THEN "" ELSE "Scout",
   goal |-> IF missing = "goal" THEN "" ELSE "goal",
   description |-> IF missing = "description" THEN "" ELSE "description",
   location |-> IF missing = "location" THEN "" ELSE "Tokyo",
   search_queries |-> IF missing = "search_queries" THEN <<>> ELSE <<"query">>,
   frequency |-> IF missing = "frequency" THEN "" ELSE "hourly"]

ExecutionRow(scout, status, started, completed, message) ==
  [scout_id |-> scout, status |-> status, started_at |-> started,
   completed_at |-> completed, error_message |-> message]

ExecIds == 1..Len(executions)

\* rows come back in id order
RECURSIVE SortedSeq(_)
SortedSeq(S) ==
  IF S = {} THEN <<>>
  ELSE LET m == CHOOSE x \in S : \A y \in S : x <= y
       IN <<m>> \o SortedSeq(S \ {m})

SeqToSet(q) == {q[i] : i \in 1..Len(q)}

(***************************************************************************)
(* The handler's store calls and pure computations (index.ts).             *)
(***************************************************************************)
\* the read with .lte in place of .lt
StuckExecutionsLte(threeMinutesAgo) ==
  SortedSeq({e \in ExecIds : /\ executions[e].status = "running"
                              /\ executions[e].started_at <= threeMinutesAgo})

\* lines 31-35: .eq("status", "running").lt("started_at", threeMinutesAgo)
StuckExecutions(threeMinutesAgo) ==
  SortedSeq({e \in ExecIds : /\ executions[e].status = "running"
                              /\ executions[e].started_at < threeMinutesAgo})

\* lines 41-48: update(...).eq("id", execution.id)
MarkFailed(e) ==
  [executions EXCEPT ![e] = [@ EXCEPT !.status = "failed",
                                        !.completed_at = now,
                                        !.error_message = TimeoutMessage]]

\* lines 61-64: select("user_id").eq("is_active", true)
ActiveScoutUsers ==
  LET ids == SortedSeq({s \in ScoutIds : scouts[s].is_active})
  IN [i \in 1..Len(ids) |-> scouts[ids[i]].user_id]

\* line 70: [...new Set(rows.map(s => s.user_id))], in order of first appearance
RECURSIVE UniqueUserIds(_)
UniqueUserIds(rows) ==
  IF rows = <<>> THEN <<>>
  ELSE LET front == UniqueUserIds(SubSeq(rows, 1, Len(rows) - 1))
           last == rows[Len(rows)]
       IN IF last \in SeqToSet(front) THEN front ELSE Append(front, last)

\* the comparison with <= in place of <
IsInactiveUserLte(user, thirtyDaysAgo) ==
  /\ user.last_sign_in_at # NoTime
  /\ user.last_sign_in_at <= thirtyDaysAgo

\* the test that takes a user with no last_sign_in_at for inactive
IsInactiveUserOrNever(user, thirtyDaysAgo) ==
  \/ user.last_sign_in_at = NoTime
  \/ user.last_sign_in_at < thirtyDaysAgo

\* lines 81-86: user?.last_sign_in_at && lastSignIn < thirtyDaysAgo
IsInactiveUser(user, thirtyDaysAgo) ==
  /\ user.last_sign_in_at # NoTime
  /\ user.last_sign_in_at < thirtyDaysAgo

\* the filter without .eq("is_active", true)
MatchedScoutsAnyFlag(inactiveUserIds) ==
  {s \in ScoutIds : scouts[s].user_id \in inactiveUserIds}

\* lines 97-98: the rows the update is applied to,
\* .in("user_id", inactiveUserIds).eq("is_active", true)
MatchedScouts(inactiveUserIds) ==
  {s \in ScoutIds : scouts[s].user_id \in inactiveUserIds /\ scouts[s].is_active}

\* lines 95-100: update({is_active: false}).in("user_id", ids).eq("is_active", true)
DisableScouts(inactiveUserIds) ==
  [s \in ScoutIds |->
     IF scouts[s].user_id \in inactiveUserIds /\ scouts[s].is_active
     THEN [scouts[s] EXCEPT !.is_active = FALSE]
     ELSE scouts[s]]

\* the conjunction without the search_queries conjunct
IsCompleteNoQueries(scout) ==
  /\ scout.title # ""
  /\ scout.goal # ""
  /\ scout.description # ""
  /\ scout.location # ""
  /\ scout.frequency # ""

\* lines 142-148
IsComplete(scout) ==
  /\ scout.title # ""
  /\ scout.goal # ""
  /\ scout.description # ""
  /\ scout.location # ""
  /\ Len(scout.search_queries) > 0
  /\ scout.frequency # ""

Error(message, scoutId) == [message |-> message, scoutId |-> scoutId]
NoError == Error("", NoScoutId)

(***************************************************************************)
(* helpers.ts, the Due-Date Policy of the specification (section 4.1): a   *)
(* scout with no execution is due; one whose latest execution is still     *)
(* running is due only when that execution is older than the               *)
(* stuck-execution timeout; otherwise it is due when a full interval of    *)
(* its frequency has passed since the latest execution started.            *)
(***************************************************************************)
FrequencyInterval(frequency) ==
  IF frequency = "hourly" THEN HourlyInterval
  ELSE IF frequency = "daily" THEN DailyInterval
  ELSE NoTime

MostRecentExecution(scoutId) ==
  LET mine == {e \in ExecIds : executions[e].scout_id = scoutId}
  IN IF mine = {} THEN 0 ELSE CHOOSE e \in mine : \A f \in mine : f <= e

shouldRunScout(scout) ==
  LET last == MostRecentExecution(scout.id)
      interval == FrequencyInterval(scout.frequency)
  IN /\ interval # NoTime
     /\ \/ last = 0
        \/ /\ executions[last].status = "running"
           /\ now - executions[last].started_at > ThreeMinutes
        \/ /\ executions[last].status # "running"
           /\ now - executions[last].started_at >= interval

\* the manual trigger that does not look at is_active
ManualSelectAnyFlag(scoutId, checkError) ==
  IF checkError \/ scoutId \notin ScoutIds
  THEN [error |-> Error("not found in database", scoutId), run |-> <<>>]
  ELSE IF ~IsComplete(scouts[scoutId])
  THEN [error |-> Error("configuration is not complete", scoutId), run |-> <<>>]
  ELSE [error |-> NoError, run |-> <<scouts[scoutId]>>]

\* the manual trigger that runs the scout only when it is due
ManualSelectIfDue(scoutId, checkError) ==
  IF checkError \/ scoutId \notin ScoutIds
  THEN [error |-> Error("not found in database", scoutId), run |-> <<>>]
  ELSE IF ~scouts[scoutId].is_active
  THEN [error |-> Error("is not active. Please activate it in the settings.", scoutId),
        run |-> <<>>]
  ELSE IF ~IsComplete(scouts[scoutId])
  THEN [error |-> Error("configuration is not complete", scoutId), run |-> <<>>]
  ELSE IF ~shouldRunScout(scouts[scoutId])
  THEN [error |-> NoError, run |-> <<>>]
  ELSE [error |-> NoError, run |-> <<scouts[scoutId]>>]

\* lines 120-154: the manual trigger; checkError is a failed read
ManualSelect(scoutId, checkError) ==
  IF checkError \/ scoutId \notin ScoutIds
  THEN [error |-> Error("not found in database", scoutId), run |-> <<>>]
  ELSE IF ~scouts[scoutId].is_active
  THEN [error |-> Error("is not active. Please activate it in the settings.", scoutId),
        run |-> <<>>]
  ELSE IF ~IsComplete(scouts[scoutId])
  THEN [error |-> Error("configuration is not complete", scoutId), run |-> <<>>]
  ELSE [error |-> NoError, run |-> <<scouts[scoutId]>>]

\* the cron trigger that leaves out the scouts some invocation has in flight
CronSelectExclusive(error) ==
  IF error
  THEN [error |-> Error("store error", NoScoutId), run |-> <<>>]
  ELSE LET due == SortedSeq({s \in ScoutIds :
                               /\ scouts[s].is_active /\ shouldRunScout(scouts[s])
                               /\ \A d \in Cycles : inv[d][s].state \notin {"started", "running"}})
       IN [error |-> NoError, run |-> [i \in 1..Len(due) |-> scouts[due[i]]]]

\* the cron trigger that takes a failed read for no scout to run
CronSelectSwallow(error) ==
  IF error
  THEN [error |-> NoError, run |-> <<>>]
  ELSE LET due == SortedSeq({s \in ScoutIds : scouts[s].is_active /\ shouldRunScout(scouts[s])})
       IN [error |-> NoError, run |-> [i \in 1..Len(due) |-> scouts[due[i]]]]

\* lines 157-166: the cron trigger
CronSelect(error) ==
  IF error
  THEN [error |-> Error("store error", NoScoutId), run |-> <<>>]
  ELSE LET due == SortedSeq({s \in ScoutIds : scouts[s].is_active /\ shouldRunScout(scouts[s])})
       IN [error |-> NoError, run |-> [i \in 1..Len(due) |-> scouts[due[i]]]]

\* lines 172-174: Promise.all over the promises of the run set
PromiseAll(promises) ==
  IF \E s \in DOMAIN promises : promises[s] = "rejected" THEN "rejected"
  ELSE IF \A s \in DOMAIN promises : promises[s] = "fulfilled" THEN "fulfilled"
  ELSE "pending"

\* the report that leaves out the last scout of the run set
SuccessResponseShort(run) ==
  [status |-> 200, success |-> TRUE, scoutsExecuted |-> Len(run),
   scouts |-> [i \in 1..(Len(run) - 1) |-> [id |-> run[i].id, title |-> run[i].title]],
   error |-> NoError]

\* lines 176-186
SuccessResponse(run) ==
  [status |-> 200, success |-> TRUE, scoutsExecuted |-> Len(run),
   scouts |-> [i \in 1..Len(run) |-> [id |-> run[i].id, title |-> run[i].title]],
   error |-> NoError]

\* lines 187-195
ErrorResponse(error) ==
  [status |-> 500, success |-> FALSE, scoutsExecuted |-> 0, scouts |-> <<>>,
   error |-> error]

NoResponse ==
  [status |-> 0, success |-> FALSE, scoutsExecuted |-> 0, scouts |-> <<>>, error |-> NoError]

(***************************************************************************)
(* Table user_preferences, and slack.ts.  A webhook URL is kept in parts:  *)
(* scheme, host, the first path segment, the three segments after it as    *)
(* sequences of characters, and whatever follows them.                     *)
(***************************************************************************)
WebhookUrl(scheme, host, service, team, bot, token, rest) ==
  [scheme |-> scheme, host |-> host, service |-> service, team |-> team, bot |-> bot,
   token |-> token, rest |-> rest]

\* slack_webhook_url is null or the empty string
NoUrl == WebhookUrl("", "", "", <<>>, <<>>, <<>>, "")

UpperCase == {"A", "B", "T", "Z"}
LowerCase == {"a", "z"}
Digit == {"0", "9"}

\* slack.ts lines 7-8, SLACK_WEBHOOK_PATTERN.test(url):
\* ^https:\/\/hooks\.slack\.com\/services\/T[A-Z0-9]+\/B[A-Z0-9]+\/[A-Za-z0-9]+$
SlackWebhookPattern(url) ==
  /\ url.scheme = "https"
  /\ url.host = "hooks.slack.com"
  /\ url.service = "services"
  /\ Len(url.team) >= 2 /\ url.team[1] = "T"
  /\ \A i \in 2..Len(url.team) : url.team[i] \in UpperCase \cup Digit
  /\ Len(url.bot) >= 2 /\ url.bot[1] = "B"
  /\ \A i \in 2..Len(url.bot) : url.bot[i] \in UpperCase \cup Digit
  /\ Len(url.token) >= 1
  /\ \A i \in 1..Len(url.token) : url.token[i] \in UpperCase \cup LowerCase \cup Digit
  /\ url.rest = ""

\* https://hooks.slack.com/services/T0A/B9/aZ0
SlackUrl == WebhookUrl("https", "hooks.slack.com", "services", <<"T", "0", "A">>, <<"B", "9">>,
                       <<"a", "Z", "0">>, "")

\* the URLs a user may have stored: none, a Slack webhook, and near misses of one
WebhookUrls ==
  {NoUrl, SlackUrl,
   [SlackUrl EXCEPT !.scheme = "http"],
   [SlackUrl EXCEPT !.host = "hooks.slack.com.example.org"],
   [SlackUrl EXCEPT !.team = <<"T">>],
   [SlackUrl EXCEPT !.team = <<"T", "a">>],
   [SlackUrl EXCEPT !.bot = <<"A", "9">>],
   [SlackUrl EXCEPT !.token = <<>>],
   [SlackUrl EXCEPT !.token = <<"a", "-", "0">>],
   [SlackUrl EXCEPT !.rest = "/x"]}

PreferencesRow(url, key, keyStatus) ==
  [slack_webhook_url |-> url, firecrawl_api_key |-> key, firecrawl_key_status |-> keyStatus,
   last_test_slack_at |-> NoTime, exists |-> TRUE]

Notifications == {"n1", "n2"}

\* the scout whose results notification n is about
NotifiedScout(n) == IF n = "n1" THEN 1 ELSE 2

SlackCall(at, userId) ==
  [pc |-> at, user_id |-> userId, posts |-> <<>>, promise |-> "pending", log |-> ""]

\* no call of sendSlackNotification happens
InitNoSlack == slack = [n \in Notifications |-> SlackCall("off", "")]

(***************************************************************************)
(* The auth callback (GET).  A redirect is the path and the pendingQuery   *)
(* parameter it carries; a query is a sequence of characters.              *)
(***************************************************************************)
Callbacks == {"k1", "k2"}

\* the account that both callback requests sign in
CallbackUser == "u1"

Redirect(path, pendingQuery) == [path |-> path, pendingQuery |-> pendingQuery]

NoRedirect == Redirect("", <<>>)

\* line 44: encodeURIComponent, for the characters of PendingQueries
EncodeURIComponent(q) ==
  [i \in 1..Len(q) |-> IF q[i] = " " THEN "%20"
                       ELSE IF q[i] = "&" THEN "%26"
                       ELSE q[i]]

\* searchParams.get("code"), get("redirectTo"), get("pendingQuery"); "" and <<>> are null
Codes == {"", "code"}
RedirectTos == {"", "/scouts"}
PendingQueries == {<<>>, <<"a", " ", "&">>}

\* what supabase.auth.getUser() may answer: a user with id and email, one with no
\* email, no user
SessionUsers ==
  {[id |-> CallbackUser, email |-> "u1@example.org"], [id |-> CallbackUser, email |-> ""],
   [id |-> "", email |-> ""]}

FirecrawlKeys == {"", "fc-key"}
FirecrawlKeyStatuses == {"pending", "active", "invalid"}

CallbackRequest(at, code, redirectTo, pendingQuery) ==
  [pc |-> at, code |-> code, redirectTo |-> redirectTo, pendingQuery |-> pendingQuery,
   session |-> FALSE, user |-> [id |-> "", email |-> ""], read |-> "none",
   redirect |-> NoRedirect, provisioning |-> "none"]

\* no request of the auth callback happens
InitNoCallback == callback = [k \in Callbacks |-> CallbackRequest("off", "", "", <<>>)]

\* nobody has stored a preference
InitNoPreferences == preferences = [u \in Users |-> PreferencesRow(NoUrl, "", "")]

(***************************************************************************)
(* The send-test-slack route (POST).  Times are in milliseconds.           *)
(***************************************************************************)
TEST_SLACK_COOLDOWN_SECONDS == 60
TEST_SLACK_COOLDOWN_MS == TEST_SLACK_COOLDOWN_SECONDS * 1000

TestRequests == {"t1", "t2"}

\* the user who sends both requests
TestUser == "u2"

\* Date.now() when the first request arrives
TestStart == 2 * TEST_SLACK_COOLDOWN_MS

\* the instants the clock moves to
TestTimes == {TestStart + 500, TestStart + TEST_SLACK_COOLDOWN_MS - 500,
              TestStart + TEST_SLACK_COOLDOWN_MS, TestStart + TEST_SLACK_COOLDOWN_MS + 500}

\* last_test_slack_at of the user before the requests: never, 59.5 s ago, 0.1 s ago
LastTests == {NoTime, TestStart - TEST_SLACK_COOLDOWN_MS + 500, TestStart - 100}

\* the webhookUrl of a request body (NoUrl: none), and the URL the user has stored
TestUrls == {NoUrl, SlackUrl, [SlackUrl EXCEPT !.rest = "/x"]}

\* the data of a read that gave no row
NoPreferences == [PreferencesRow(NoUrl, "", "") EXCEPT !.exists = FALSE]

\* Math.ceil(a / b), b > 0
Ceil(a, b) == IF a % b = 0 THEN a \div b ELSE (a \div b) + 1

Max(a, b) == IF a >= b THEN a ELSE b

TestResponse(status, error, cooldownRemaining) ==
  [status |-> status, error |-> error, cooldownRemaining |-> cooldownRemaining]

NoTestResponse == TestResponse(0, "", 0)

\* a request: the await it is at, the body's webhookUrl, the preferences it read, the
\* time of its fetch, whether Slack accepted it, line 122's now, whether it made a
\* store write, and its response
TestRequest(at, providedWebhookUrl) ==
  [pc |-> at, providedWebhookUrl |-> providedWebhookUrl, preferences |-> NoPreferences,
   webhookUrl |-> NoUrl, fetchedAt |-> NoTime, accepted |-> FALSE, now |-> NoTime,
   wrote |-> FALSE, response |-> NoTestResponse]

\* no request of send-test-slack happens
InitNoTestSlack ==
  /\ testSlack = [r \in TestRequests |-> TestRequest("off", NoUrl)]
  /\ nowMs = TestStart

(***************************************************************************)
(* The initial store.  u1 signed in exactly thirty days ago, u2 a minute   *)
(* ago, u3 never signed in, u4 is no account.  Scouts 1 and 2 never ran;   *)
(* scout 3 has two executions left running by earlier invocations, four    *)
(* and three minutes old; scout 4 is switched off; scout 5 failed ten      *)
(* minutes ago.  Scout 2's configuration lacks the field `missing`.        *)
(***************************************************************************)
InitStore(missing) ==
  /\ now = T0
  /\ authUsers = [u \in Users |->
                    IF u = "u1" THEN [exists |-> TRUE, last_sign_in_at |-> T0 - ThirtyDays]
                    ELSE IF u = "u2" THEN [exists |-> TRUE, last_sign_in_at |-> T0 - 1]
                    ELSE IF u = "u3" THEN [exists |-> TRUE, last_sign_in_at |-> NoTime]
                    ELSE [exists |-> FALSE, last_sign_in_at |-> NoTime]]
  /\ scouts = [s \in ScoutIds |->
                 IF s = 1 THEN ScoutRow(1, "u1", TRUE, "none")
                 ELSE IF s = 2 THEN ScoutRow(2, "u2", TRUE, missing)
                 ELSE IF s = 3 THEN ScoutRow(3, "u3", TRUE, "none")
                 ELSE IF s = 4 THEN ScoutRow(4, "u1", FALSE, "none")
                 ELSE ScoutRow(5, "u4", TRUE, "none")]
  /\ executions = << ExecutionRow(3, "running", T0 - ThreeMinutes - 1, NoTime, ""),
                     ExecutionRow(3, "running", T0 - ThreeMinutes, NoTime, ""),
                     ExecutionRow(4, "succeeded", T0 - HourlyInterval + 1,
                                  T0 - HourlyInterval + 2, ""),
                     ExecutionRow(5, "failed", T0 - 10, T0 - 9, "execution failed") >>

\* the invocations `on` have a request in flight, the others never happen
InitCycles(on, requests) ==
  /\ pc = [c \in Cycles |-> IF c \in on THEN "idle" ELSE "off"]
  /\ req \in [Cycles -> requests \cup {NoScoutId}]
  /\ \A c \in on : req[c] \in requests
  /\ \A c \in Cycles \ on : req[c] = NoScoutId
  /\ stuck = [c \in Cycles |-> [rows |-> <<>>, i |-> 1]]
  /\ sweep = [c \in Cycles |-> [thirtyDaysAgo |-> NoTime, users |-> <<>>, i |-> 1,
                                inactive |-> <<>>, skipped |-> {}, written |-> {}]]
  /\ scoutsToRun = [c \in Cycles |-> <<>>]
  /\ inv = [c \in Cycles |-> [s \in ScoutIds |-> [state |-> "none", exec |-> 0]]]
  /\ response = [c \in Cycles |-> NoResponse]
  /\ faults = [c \in Cycles |-> {}]
  /\ stages = [c \in Cycles |-> <<>>]

\* one invocation, any request, over a store whose calls may fail; scout 2 lacks
\* any one field when it is the scout asked for, and a field the report shows, an
\* array or the frequency under a cron trigger
Init ==
  /\ \E missing \in {"none"} \cup ConfigFields :
       /\ InitStore(missing)
       /\ InitCycles({"c1"}, IF missing = "none" THEN RequestIds
                             ELSE IF missing \in {"title", "search_queries", "frequency"}
                             THEN {NoScoutId, 2}
                             ELSE {2})
  /\ faultBudget = MaxFaults
  /\ InitNoPreferences /\ InitNoSlack /\ InitNoCallback /\ InitNoTestSlack

\* two overlapping invocations over a store whose calls succeed; scout 2 has no
\* frequency, so scout 1 is the scout that is due
InitOverlap ==
  /\ InitStore("frequency")
  /\ InitCycles(Cycles, OverlapRequestIds)
  /\ faultBudget = 0
  /\ InitNoPreferences /\ InitNoSlack /\ InitNoCallback /\ InitNoTestSlack

\* a store call may fail while failures are left to inject
FaultChoices == IF faultBudget > 0 THEN {FALSE, TRUE} ELSE {FALSE}

Fault(c, fail, call) ==
  /\ faults' = [faults EXCEPT ![c] = IF fail THEN @ \cup {call} ELSE @]
  /\ faultBudget' = IF fail THEN faultBudget - 1 ELSE faultBudget

(***************************************************************************)
(* lines 11-35: the request arrives; the configuration check; the read of  *)
(* the stuck executions.                                                   *)
(***************************************************************************)
Serve(c) ==
  /\ pc[c] = "idle"
  /\ \E configured \in BOOLEAN, fail \in FaultChoices :
       /\ IF ~configured
          THEN /\ ~fail
               /\ response' = [response EXCEPT ![c] =
                                 ErrorResponse(Error("Supabase configuration missing", NoScoutId))]
               /\ pc' = [pc EXCEPT ![c] = "done"]
               /\ UNCHANGED <<stuck, stages, faults, faultBudget>>
          ELSE LET rows == IF fail THEN <<>> ELSE StuckExecutions(now - ThreeMinutes)
               IN /\ stuck' = [stuck EXCEPT ![c] = [rows |-> rows, i |-> 1]]
                  /\ pc' = [pc EXCEPT ![c] = IF rows # <<>> THEN "reconcile" ELSE "sweep_select"]
                  /\ stages' = [stages EXCEPT ![c] = Append(@, "reconcile")]
                  /\ Fault(c, fail, "reconcile_read")
                  /\ UNCHANGED response
  /\ UNCHANGED <<now, authUsers, scouts, executions, req, sweep, scoutsToRun, inv>>
  /\ UNCHANGED collaborators

\* the loop that also switches off the scout of the execution it fails
ReconcileDisablesScout(c) ==
  /\ pc[c] = "reconcile"
  /\ \E fail \in FaultChoices :
       LET e == stuck[c].rows[stuck[c].i]
       IN /\ executions' = IF fail THEN executions ELSE MarkFailed(e)
          /\ scouts' = IF fail THEN scouts
                       ELSE [scouts EXCEPT ![executions[e].scout_id].is_active = FALSE]
          /\ Fault(c, fail, "reconcile_write")
  /\ stuck' = [stuck EXCEPT ![c].i = @ + 1]
  /\ pc' = [pc EXCEPT ![c] = IF stuck[c].i = Len(stuck[c].rows) THEN "sweep_select" ELSE "reconcile"]
  /\ UNCHANGED <<now, authUsers, req, sweep, scoutsToRun, inv, response, stages>>
  /\ UNCHANGED collaborators

\* the loop that is left after its first update
ReconcileFirstOnly(c) ==
  /\ pc[c] = "reconcile"
  /\ \E fail \in FaultChoices :
       /\ executions' = IF fail THEN executions ELSE MarkFailed(stuck[c].rows[stuck[c].i])
       /\ Fault(c, fail, "reconcile_write")
  /\ stuck' = [stuck EXCEPT ![c].i = @ + 1]
  /\ pc' = [pc EXCEPT ![c] = "sweep_select"]
  /\ UNCHANGED <<now, authUsers, scouts, req, sweep, scoutsToRun, inv, response, stages>>
  /\ UNCHANGED collaborators

\* the loop whose update throws when it fails
ReconcileThrows(c) ==
  /\ pc[c] = "reconcile"
  /\ \E fail \in FaultChoices :
       /\ executions' = IF fail THEN executions ELSE MarkFailed(stuck[c].rows[stuck[c].i])
       /\ Fault(c, fail, "reconcile_write")
       /\ response' = [response EXCEPT ![c] =
                         IF fail THEN ErrorResponse(Error("store error", NoScoutId)) ELSE @]
       /\ pc' = [pc EXCEPT ![c] = IF fail THEN "done"
                                  ELSE IF stuck[c].i = Len(stuck[c].rows) THEN "sweep_select"
                                  ELSE "reconcile"]
  /\ stuck' = [stuck EXCEPT ![c].i = @ + 1]
  /\ UNCHANGED <<now, authUsers, scouts, req, sweep, scoutsToRun, inv, stages>>
  /\ UNCHANGED collaborators

(***************************************************************************)
(* lines 40-51: one turn of the loop over stuckExecutions.                 *)
(***************************************************************************)
Reconcile(c) ==
  /\ pc[c] = "reconcile"
  /\ \E fail \in FaultChoices :
       /\ executions' = IF fail THEN executions ELSE MarkFailed(stuck[c].rows[stuck[c].i])
       /\ Fault(c, fail, "reconcile_write")
  /\ stuck' = [stuck EXCEPT ![c].i = @ + 1]
  /\ pc' = [pc EXCEPT ![c] = IF stuck[c].i = Len(stuck[c].rows) THEN "sweep_select" ELSE "reconcile"]
  /\ UNCHANGED <<now, authUsers, scouts, req, sweep, scoutsToRun, inv, response, stages>>
  /\ UNCHANGED collaborators

(***************************************************************************)
(* lines 56-70: the read of the owners of the active scouts.               *)
(***************************************************************************)
SweepSelect(c) ==
  /\ pc[c] = "sweep_select"
  /\ \E scoutUsersError \in FaultChoices :
       LET users == IF scoutUsersError THEN <<>> ELSE UniqueUserIds(ActiveScoutUsers)
       IN /\ sweep' = [sweep EXCEPT ![c] = [thirtyDaysAgo |-> now - ThirtyDays, users |-> users,
                                            i |-> 1, inactive |-> <<>>, skipped |-> {},
                                            written |-> {}]]
          /\ pc' = [pc EXCEPT ![c] = IF users # <<>> THEN "sweep_lookup" ELSE "select"]
          /\ Fault(c, scoutUsersError, "sweep_read")
  /\ stages' = [stages EXCEPT ![c] = Append(@, "sweep")]
  /\ UNCHANGED <<now, authUsers, scouts, executions, req, stuck, scoutsToRun, inv, response>>
  /\ UNCHANGED collaborators

\* the loop that a failed lookup ends: the owners after it are not looked up
SweepLookupAborts(c) ==
  /\ pc[c] = "sweep_lookup"
  /\ LET userId == sweep[c].users[sweep[c].i]
         last == sweep[c].i = Len(sweep[c].users)
     IN \E outcome \in {"answer"} \cup (IF faultBudget > 0 THEN {"error", "throw"} ELSE {}) :
          LET userError == outcome = "error" \/ ~authUsers[userId].exists
              skip == userError \/ outcome = "throw"
              inactive == IF ~skip /\ IsInactiveUser(authUsers[userId], sweep[c].thirtyDaysAgo)
                          THEN Append(sweep[c].inactive, userId)
                          ELSE sweep[c].inactive
          IN /\ sweep' = [sweep EXCEPT ![c].i = @ + 1,
                                       ![c].inactive = inactive,
                                       ![c].skipped = IF skip THEN @ \cup {userId} ELSE @]
             /\ pc' = [pc EXCEPT ![c] = IF skip THEN "select"
                                        ELSE IF ~last THEN "sweep_lookup"
                                        ELSE IF inactive # <<>> THEN "sweep_disable"
                                        ELSE "select"]
             /\ Fault(c, outcome # "answer", "lookup_" \o outcome)
  /\ UNCHANGED <<now, authUsers, scouts, executions, req, stuck, scoutsToRun, inv, response,
                 stages>>
  /\ UNCHANGED collaborators

(***************************************************************************)
(* lines 74-90: getUserById for the next owner.  The call answers with an  *)
(* error for an id that is no account; it may also fail or throw.          *)
(***************************************************************************)
SweepLookup(c) ==
  /\ pc[c] = "sweep_lookup"
  /\ LET userId == sweep[c].users[sweep[c].i]
         last == sweep[c].i = Len(sweep[c].users)
     IN \E outcome \in {"answer"} \cup (IF faultBudget > 0 THEN {"error", "throw"} ELSE {}) :
          LET userError == outcome = "error" \/ ~authUsers[userId].exists
              skip == userError \/ outcome = "throw"
              inactive == IF ~skip /\ IsInactiveUser(authUsers[userId], sweep[c].thirtyDaysAgo)
                          THEN Append(sweep[c].inactive, userId)
                          ELSE sweep[c].inactive
          IN /\ sweep' = [sweep EXCEPT ![c].i = @ + 1,
                                       ![c].inactive = inactive,
                                       ![c].skipped = IF skip THEN @ \cup {userId} ELSE @]
             /\ pc' = [pc EXCEPT ![c] = IF ~last THEN "sweep_lookup"
                                        ELSE IF inactive # <<>> THEN "sweep_disable"
                                        ELSE "select"]
             /\ Fault(c, outcome # "answer", "lookup_" \o outcome)
  /\ UNCHANGED <<now, authUsers, scouts, executions, req, stuck, scoutsToRun, inv, response,
                 stages>>
  /\ UNCHANGED collaborators

(***************************************************************************)
(* lines 92-106: the bulk update that switches the scouts off.             *)
(***************************************************************************)
SweepDisable(c) ==
  /\ pc[c] = "sweep_disable"
  /\ \E disableError \in FaultChoices :
       /\ scouts' = IF disableError THEN scouts ELSE DisableScouts(SeqToSet(sweep[c].inactive))
       /\ sweep' = [sweep EXCEPT ![c].written = IF disableError THEN {}
                                                ELSE MatchedScouts(SeqToSet(sweep[c].inactive))]
       /\ Fault(c, disableError, "sweep_write")
  /\ pc' = [pc EXCEPT ![c] = "select"]
  /\ UNCHANGED <<now, authUsers, executions, req, stuck, scoutsToRun, inv, response, stages>>
  /\ UNCHANGED collaborators

RunIds(run) == {run[i].id : i \in 1..Len(run)}

\* the promises of the run set of invocation c, given the calls' states
Promises(c, calls) ==
  [s \in RunIds(scoutsToRun[c]) |->
     IF calls[s].state \in {"fulfilled", "rejected"} THEN calls[s].state ELSE "pending"]

(***************************************************************************)
(* lines 114-174: the selection of the run set and, in the same turn, the  *)
(* call of executeScoutAgent for every scout of it.  A selection error is  *)
(* thrown to the catch of lines 187-195; Promise.all of no promise is      *)
(* fulfilled at once (lines 176-186).                                      *)
(***************************************************************************)
Select(c) ==
  /\ pc[c] = "select"
  /\ \E error \in FaultChoices :
       LET r == IF req[c] # NoScoutId THEN ManualSelect(req[c], error) ELSE CronSelect(error)
       IN /\ Fault(c, error, "select_read")
          /\ IF r.error # NoError
             THEN /\ response' = [response EXCEPT ![c] = ErrorResponse(r.error)]
                  /\ pc' = [pc EXCEPT ![c] = "done"]
                  /\ stages' = [stages EXCEPT ![c] = Append(@, "select")]
                  /\ UNCHANGED <<scoutsToRun, inv>>
             ELSE /\ scoutsToRun' = [scoutsToRun EXCEPT ![c] = r.run]
                  /\ inv' = [inv EXCEPT ![c] =
                               [s \in ScoutIds |-> IF s \in RunIds(r.run)
                                                   THEN [state |-> "started", exec |-> 0]
                                                   ELSE @[s]]]
                  /\ IF r.run = <<>>
                     THEN /\ response' = [response EXCEPT ![c] = SuccessResponse(r.run)]
                          /\ pc' = [pc EXCEPT ![c] = "done"]
                          /\ stages' = [stages EXCEPT ![c] = @ \o <<"select", "dispatch", "report">>]
                     ELSE /\ pc' = [pc EXCEPT ![c] = "await_all"]
                          /\ stages' = [stages EXCEPT ![c] = @ \o <<"select", "dispatch">>]
                          /\ UNCHANGED response
  /\ UNCHANGED <<now, authUsers, scouts, executions, req, stuck, sweep>>
  /\ UNCHANGED collaborators

(***************************************************************************)
(* agent.ts, executeScoutAgent, from the specification (sections 3, 4.4    *)
(* and 6): the call creates the scout's execution record, running, and     *)
(* later ends it, succeeded or failed; a failed execution throws.  The     *)
(* record is ended only while it is still running.                         *)
(***************************************************************************)
ExecInsert(c, s) ==
  /\ inv[c][s].state = "started"
  /\ executions' = Append(executions, ExecutionRow(s, "running", now, NoTime, ""))
  /\ inv' = [inv EXCEPT ![c][s] = [state |-> "running", exec |-> Len(executions) + 1]]
  /\ UNCHANGED <<now, authUsers, scouts, pc, req, stuck, sweep, scoutsToRun, response, faults,
                 stages, faultBudget>>
  /\ UNCHANGED collaborators

ExecEnd(e, status) ==
  IF executions[e].status = "running"
  THEN [executions EXCEPT ![e] = [@ EXCEPT !.status = status,
                                           !.completed_at = now,
                                           !.error_message = IF status = "failed"
                                                             THEN "execution failed" ELSE ""]]
  ELSE executions

(***************************************************************************)
(* An execution ends; lines 172-195: the handler, if it still awaits       *)
(* Promise.all, goes on when that promise is settled: fulfilled when every *)
(* promise is, rejected as soon as one is.                                 *)
(***************************************************************************)
ExecFinish(c, s) ==
  /\ inv[c][s].state = "running"
  /\ \E status \in {"succeeded", "failed"} :
       LET calls == [inv[c] EXCEPT ![s].state = IF status = "failed" THEN "rejected"
                                                 ELSE "fulfilled"]
           all == PromiseAll(Promises(c, calls))
       IN /\ executions' = ExecEnd(inv[c][s].exec, status)
          /\ inv' = [inv EXCEPT ![c] = calls]
          /\ IF pc[c] = "await_all" /\ all = "fulfilled"
             THEN /\ response' = [response EXCEPT ![c] = SuccessResponse(scoutsToRun[c])]
                  /\ pc' = [pc EXCEPT ![c] = "done"]
                  /\ stages' = [stages EXCEPT ![c] = Append(@, "report")]
             ELSE IF pc[c] = "await_all" /\ all = "rejected"
             THEN /\ response' = [response EXCEPT ![c] =
                                    ErrorResponse(Error("execution failed", s))]
                  /\ pc' = [pc EXCEPT ![c] = "done"]
                  /\ UNCHANGED stages
             ELSE UNCHANGED <<response, pc, stages>>
  /\ UNCHANGED <<now, authUsers, scouts, req, stuck, sweep, scoutsToRun, faults, faultBudget>>
  /\ UNCHANGED collaborators

\* a minute passes
Tick ==
  /\ now < T0 + MaxTicks
  /\ now' = now + 1
  /\ UNCHANGED <<authUsers, scouts, executions, pc, req, stuck, sweep, scoutsToRun, inv,
                 response, faults, stages, faultBudget>>
  /\ UNCHANGED collaborators

(***************************************************************************)
(* slack.ts lines 40-92, sendSlackNotification.  Lines 46-64: the read of  *)
(* the owner's slack_webhook_url answers; the function returns when the    *)
(* read failed, when no URL is stored and when the URL does not match the  *)
(* pattern, and otherwise POSTs the message (lines 69-78).  The catch of   *)
(* lines 87-91 takes whatever is thrown.                                   *)
(***************************************************************************)
SlackPreferences(n) ==
  /\ slack[n].pc = "preferences"
  /\ \E outcome \in {"data", "error", "throw"} :
       LET webhookUrl == preferences[slack[n].user_id].slack_webhook_url
           prefError == outcome = "error"
           return(log) == [slack[n] EXCEPT !.pc = "done", !.promise = "fulfilled", !.log = log]
       IN slack' = [slack EXCEPT ![n] =
                      IF outcome = "throw" THEN return("error")
                      ELSE IF prefError \/ webhookUrl = NoUrl THEN return("no webhook")
                      ELSE IF ~SlackWebhookPattern(webhookUrl) THEN return("invalid")
                      ELSE [@ EXCEPT !.pc = "post", !.posts = Append(@, webhookUrl)]]
  /\ UNCHANGED <<cron, route, preferences, callback>>

\* the POST whose exception is thrown on to the caller
SlackPostRethrows(n) ==
  /\ slack[n].pc = "post"
  /\ \E outcome \in {"ok", "not ok", "throw"} :
       slack' = [slack EXCEPT ![n].pc = "done",
                              ![n].promise = IF outcome = "throw" THEN "rejected" ELSE "fulfilled",
                              ![n].log = IF outcome = "ok" THEN "sent"
                                         ELSE IF outcome = "not ok" THEN "failed"
                                         ELSE "error"]
  /\ UNCHANGED <<cron, route, preferences, callback>>

\* lines 72-91: the POST answers OK, answers another status, or throws
SlackPost(n) ==
  /\ slack[n].pc = "post"
  /\ \E outcome \in {"ok", "not ok", "throw"} :
       slack' = [slack EXCEPT ![n].pc = "done",
                              ![n].promise = "fulfilled",
                              ![n].log = IF outcome = "ok" THEN "sent"
                                         ELSE IF outcome = "not ok" THEN "failed"
                                         ELSE "error"]
  /\ UNCHANGED <<cron, route, preferences, callback>>

(***************************************************************************)
(* The auth callback, GET.  Lines 7-14: without a code the request is      *)
(* redirected to the error page (line 52); with one, the handler awaits    *)
(* exchangeCodeForSession.                                                 *)
(***************************************************************************)
ErrorRedirect == Redirect("/login?error=auth_callback_error", <<>>)

\* lines 42-47: the redirect after a successful exchange
SuccessRedirect(redirectTo, pendingQuery) ==
  IF pendingQuery # <<>>
  THEN Redirect("/", EncodeURIComponent(pendingQuery))
  ELSE Redirect(IF redirectTo = "" THEN "/" ELSE redirectTo, <<>>)

GET(k) ==
  /\ callback[k].pc = "start"
  /\ callback' = [callback EXCEPT ![k] =
                    IF callback[k].code = ""
                    THEN [@ EXCEPT !.pc = "done", !.redirect = ErrorRedirect]
                    ELSE [@ EXCEPT !.pc = "exchange"]]
  /\ UNCHANGED <<cron, route, preferences, slack>>

\* lines 14-18: exchangeCodeForSession answers
ExchangeCodeForSession(k) ==
  /\ callback[k].pc = "exchange"
  /\ \E error \in BOOLEAN :
       callback' = [callback EXCEPT ![k] =
                      IF error
                      THEN [@ EXCEPT !.pc = "done", !.redirect = ErrorRedirect]
                      ELSE [@ EXCEPT !.pc = "get_user", !.session = TRUE]]
  /\ UNCHANGED <<cron, route, preferences, slack>>

\* lines 18-26 and 42-47: getUser answers; without an id and an email the handler
\* redirects at once
GetUser(k) ==
  /\ callback[k].pc = "get_user"
  /\ \E user \in SessionUsers :
       callback' = [callback EXCEPT ![k] =
                      IF user.id # "" /\ user.email # ""
                      THEN [@ EXCEPT !.pc = "preferences", !.user = user]
                      ELSE [@ EXCEPT !.pc = "done", !.user = user,
                                     !.redirect = SuccessRedirect(callback[k].redirectTo,
                                                                  callback[k].pendingQuery)]]
  /\ UNCHANGED <<cron, route, preferences, slack>>

\* lines 29-30; key and keyStatus are "" when the read gave no row
NeedsKey(key, keyStatus) == key = "" \/ keyStatus # "active"

\* the handler that awaits the creation of the key and fails when it fails
ReadPreferencesAwaits(k) ==
  /\ callback[k].pc = "preferences"
  /\ \E found \in BOOLEAN, ok \in BOOLEAN :
       LET userId == callback[k].user.id
           row == preferences[userId]
           needsKey == IF found THEN NeedsKey(row.firecrawl_api_key, row.firecrawl_key_status)
                       ELSE NeedsKey("", "")
       IN /\ callback' = [callback EXCEPT
                            ![k].pc = "done",
                            ![k].read = IF found THEN "row" ELSE "no row",
                            ![k].provisioning = IF ~needsKey THEN "none"
                                                ELSE IF ok THEN "fulfilled"
                                                ELSE "rejected",
                            ![k].redirect = IF needsKey /\ ~ok THEN ErrorRedirect
                                            ELSE SuccessRedirect(callback[k].redirectTo,
                                                                 callback[k].pendingQuery)]
          /\ preferences' = IF needsKey /\ ok
                            THEN [preferences EXCEPT ![userId].firecrawl_api_key = "fc-key",
                                                     ![userId].firecrawl_key_status = "active"]
                            ELSE preferences
  /\ UNCHANGED <<cron, route, slack>>

\* lines 22-47: the read of the user's preferences answers, with the row or with none
\* (no row, or a failed read); createFirecrawlKeyForUser is called and not awaited;
\* the handler redirects
ReadPreferences(k) ==
  /\ callback[k].pc = "preferences"
  /\ \E found \in BOOLEAN :
       LET row == preferences[callback[k].user.id]
           needsKey == IF found THEN NeedsKey(row.firecrawl_api_key, row.firecrawl_key_status)
                       ELSE NeedsKey("", "")
       IN callback' = [callback EXCEPT
                         ![k].pc = "done",
                         ![k].read = IF found THEN "row" ELSE "no row",
                         ![k].provisioning = IF needsKey THEN "pending" ELSE "none",
                         ![k].redirect = SuccessRedirect(callback[k].redirectTo,
                                                         callback[k].pendingQuery)]
  /\ UNCHANGED <<cron, route, preferences, slack>>

(***************************************************************************)
(* lib/firecrawl-partner, createFirecrawlKeyForUser, from the              *)
(* specification (section 6): an idempotent "ensure a working credential   *)
(* exists for this account"; it ends with the key stored and active, or    *)
(* fails.  Lines 35-37: the rejection is caught and logged.                *)
(***************************************************************************)
CreateFirecrawlKeyForUser(k) ==
  /\ callback[k].provisioning = "pending"
  /\ \E ok \in BOOLEAN :
       /\ preferences' = IF ok
                         THEN [preferences EXCEPT
                                 ![callback[k].user.id].firecrawl_api_key = "fc-key",
                                 ![callback[k].user.id].firecrawl_key_status = "active"]
                         ELSE preferences
       /\ callback' = [callback EXCEPT
                         ![k].provisioning = IF ok THEN "fulfilled" ELSE "rejected"]
  /\ UNCHANGED <<cron, route, slack>>

(***************************************************************************)
(* send-test-slack/route.ts, POST.  Lines 14-26: getUser answers; without  *)
(* a user the response is 401; whatever is thrown (here or by the parse of *)
(* the body) goes to the catch of lines 140-145.                           *)
(***************************************************************************)
Respond(r, status, error, cooldownRemaining) ==
  [testSlack[r] EXCEPT !.pc = "done",
                       !.response = TestResponse(status, error, cooldownRemaining)]

POST(r) ==
  /\ testSlack[r].pc = "start"
  /\ \E outcome \in {"user", "no user", "throw"} :
       testSlack' = [testSlack EXCEPT ![r] =
                       IF outcome = "no user" THEN Respond(r, 401, "Not authenticated", 0)
                       ELSE IF outcome = "throw" THEN Respond(r, 500, "thrown", 0)
                       ELSE [@ EXCEPT !.pc = "preferences"]]
  /\ UNCHANGED <<cron, preferences, slack, callback, nowMs>>

\* lines 57-72: the response of the rate limit check, or NoTestResponse when it passes
RateLimit(lastTestSlackAt, dateNow) ==
  LET elapsed == dateNow - lastTestSlackAt
      remainingSeconds == Ceil(TEST_SLACK_COOLDOWN_MS - elapsed, 1000)
  IN IF lastTestSlackAt # NoTime /\ elapsed < TEST_SLACK_COOLDOWN_MS
     THEN TestResponse(429, "Please wait", Max(1, remainingSeconds))
     ELSE NoTestResponse

\* lines 30-111: the read of the user's preferences answers, with the row or with null
\* (no row, or a failed read); the URL is chosen and checked, the rate limit is
\* checked, and the message is POSTed to Slack
ReadTestPreferences(r) ==
  /\ testSlack[r].pc = "preferences"
  /\ \E found \in BOOLEAN :
       LET data == IF found /\ preferences[TestUser].exists THEN preferences[TestUser]
                   ELSE NoPreferences
           webhookUrl == IF testSlack[r].providedWebhookUrl # NoUrl
                         THEN testSlack[r].providedWebhookUrl
                         ELSE data.slack_webhook_url
           limited == RateLimit(data.last_test_slack_at, nowMs)
           read == [testSlack[r] EXCEPT !.preferences = data, !.webhookUrl = webhookUrl]
       IN testSlack' = [testSlack EXCEPT ![r] =
                          IF webhookUrl = NoUrl
                          THEN [read EXCEPT !.pc = "done",
                                            !.response = TestResponse(400, "No Slack webhook URL configured", 0)]
                          ELSE IF ~SlackWebhookPattern(webhookUrl)
                          THEN [read EXCEPT !.pc = "done",
                                            !.response = TestResponse(400, "Invalid webhook URL format", 0)]
                          ELSE IF limited # NoTestResponse
                          THEN [read EXCEPT !.pc = "done", !.response = limited]
                          ELSE [read EXCEPT !.pc = "fetch", !.fetchedAt = nowMs]]
  /\ UNCHANGED <<cron, preferences, slack, callback, nowMs>>

\* a handler that records the time of the test before it looks at Slack's answer
FetchStamps(r) ==
  /\ testSlack[r].pc = "fetch"
  /\ \E outcome \in {"ok", "not ok", "throw"} :
       /\ testSlack' = [testSlack EXCEPT ![r] =
                          IF outcome = "not ok" THEN Respond(r, 400, "Slack returned error", 0)
                          ELSE IF outcome = "throw" THEN Respond(r, 500, "thrown", 0)
                          ELSE [@ EXCEPT !.pc = "write", !.accepted = TRUE, !.now = nowMs]]
       /\ preferences' = IF outcome = "not ok" /\ preferences[TestUser].exists
                         THEN [preferences EXCEPT ![TestUser].last_test_slack_at = nowMs]
                         ELSE preferences
  /\ UNCHANGED <<cron, slack, callback, nowMs>>

\* lines 105-122: Slack answers OK, answers another status, or the fetch throws
Fetch(r) ==
  /\ testSlack[r].pc = "fetch"
  /\ \E outcome \in {"ok", "not ok", "throw"} :
       testSlack' = [testSlack EXCEPT ![r] =
                       IF outcome = "not ok" THEN Respond(r, 400, "Slack returned error", 0)
                       ELSE IF outcome = "throw" THEN Respond(r, 500, "thrown", 0)
                       ELSE [@ EXCEPT !.pc = "write", !.accepted = TRUE, !.now = nowMs]]
  /\ UNCHANGED <<cron, preferences, slack, callback, nowMs>>

\* lines 123-139: the update of the row that was read, or the insert of a row when
\* none was read; the result of the call is not looked at.  An insert for a user who
\* has a row by now is refused by the store.
WriteTimestamp(r) ==
  /\ testSlack[r].pc = "write"
  /\ \E fail \in BOOLEAN :
       LET row == preferences[TestUser]
           written == IF testSlack[r].preferences.exists
                      THEN [row EXCEPT !.last_test_slack_at = testSlack[r].now]
                      ELSE IF row.exists THEN row
                      ELSE [PreferencesRow(testSlack[r].webhookUrl, "", "pending")
                              EXCEPT !.last_test_slack_at = testSlack[r].now]
       IN preferences' = IF fail THEN preferences
                         ELSE [preferences EXCEPT ![TestUser] = written]
  /\ testSlack' = [testSlack EXCEPT ![r] = [Respond(r, 200, "", 0) EXCEPT !.wrote = TRUE]]
  /\ UNCHANGED <<cron, slack, callback, nowMs>>

\* time passes
TestTick ==
  /\ \E later \in TestTimes : later > nowMs /\ nowMs' = later
  /\ UNCHANGED <<cron, preferences, slack, callback, testSlack>>

Next ==
  \/ \E c \in Cycles : Serve(c)
  \/ \E c \in Cycles : Reconcile(c)
  \/ \E c \in Cycles : SweepSelect(c)
  \/ \E c \in Cycles : SweepLookup(c)
  \/ \E c \in Cycles : SweepDisable(c)
  \/ \E c \in Cycles : Select(c)
  \/ \E c \in Cycles, s \in ScoutIds : ExecInsert(c, s)
  \/ \E c \in Cycles, s \in ScoutIds : ExecFinish(c, s)
  \/ Tick

Spec == Init /\ [][Next]_vars

SpecOverlap == InitOverlap /\ [][Next]_vars

\* two calls of sendSlackNotification, for scouts 1 and 2, whose owners have stored
\* any of WebhookUrls; no invocation of the scout-cron handler
InitSlack ==
  /\ InitStore("none")
  /\ InitCycles({}, {})
  /\ faultBudget = 0
  /\ preferences \in [Users -> {PreferencesRow(url, "", "") : url \in WebhookUrls}]
  /\ \A u \in Users \ {"u1", "u2"} : preferences[u].slack_webhook_url = NoUrl
  /\ slack = [n \in Notifications |-> SlackCall("preferences", scouts[NotifiedScout(n)].user_id)]
  /\ InitNoCallback
  /\ InitNoTestSlack

NextSlack ==
  \/ \E n \in Notifications : SlackPreferences(n)
  \/ \E n \in Notifications : SlackPost(n)

SpecSlack == InitSlack /\ [][NextSlack]_vars

\* two requests of the auth callback for the same account, whose preferences hold any
\* key and key status; no invocation of the scout-cron handler
InitCallback ==
  /\ InitStore("none")
  /\ InitCycles({}, {})
  /\ faultBudget = 0
  /\ \E key \in FirecrawlKeys, keyStatus \in FirecrawlKeyStatuses :
       preferences = [u \in Users |-> IF u = CallbackUser
                                      THEN PreferencesRow(NoUrl, key, keyStatus)
                                      ELSE PreferencesRow(NoUrl, "", "")]
  /\ InitNoSlack
  /\ InitNoTestSlack
  /\ callback \in [Callbacks -> {CallbackRequest("start", code, redirectTo, pendingQuery) :
                                   code \in Codes, redirectTo \in RedirectTos,
                                   pendingQuery \in PendingQueries}]

NextCallback ==
  \/ \E k \in Callbacks : GET(k)
  \/ \E k \in Callbacks : ExchangeCodeForSession(k)
  \/ \E k \in Callbacks : GetUser(k)
  \/ \E k \in Callbacks : ReadPreferences(k)
  \/ \E k \in Callbacks : CreateFirecrawlKeyForUser(k)

SpecCallback == InitCallback /\ [][NextCallback]_vars

\* two requests of send-test-slack by the same user, who has stored any URL of
\* TestUrls and sent a test before at any time of LastTests, or has no row
InitTestSlack ==
  /\ InitStore("none")
  /\ InitCycles({}, {})
  /\ faultBudget = 0
  /\ InitNoSlack
  /\ InitNoCallback
  /\ \E url \in TestUrls, last \in LastTests, exists \in BOOLEAN :
       /\ ~exists => url = NoUrl /\ last = NoTime
       /\ preferences = [u \in Users |->
                           IF u = TestUser
                           THEN [PreferencesRow(url, "", "pending")
                                   EXCEPT !.last_test_slack_at = last, !.exists = exists]
                           ELSE PreferencesRow(NoUrl, "", "")]
  /\ testSlack \in [TestRequests -> {TestRequest("start", url) : url \in TestUrls}]
  /\ nowMs = TestStart

NextTestSlack ==
  \/ \E r \in TestRequests : POST(r)
  \/ \E r \in TestRequests : ReadTestPreferences(r)
  \/ \E r \in TestRequests : Fetch(r)
  \/ \E r \in TestRequests : WriteTimestamp(r)
  \/ TestTick

SpecTestSlack == InitTestSlack /\ [][NextTestSlack]_vars

(***************************************************************************)
(* Steps of an invocation, as seen in a pair of states.                    *)
(***************************************************************************)
\* invocation c takes the step it is suspended at `at`
Steps(c, at) ==
  /\ pc[c] = at
  /\ \/ pc'[c] # pc[c]
     \/ stuck'[c] # stuck[c]
     \/ sweep'[c] # sweep[c]

\* the store call of the step failed
CallFailed == faultBudget' < faultBudget

ReconcileDone(c) == pc[c] \in {"sweep_select", "sweep_lookup", "sweep_disable", "select",
                               "await_all"} \/ (pc[c] = "done" /\ stages[c] # <<>>)

ReconcileFaults == {"reconcile_read", "reconcile_write"}

(***************************************************************************)
(* C1.  A reconciliation pass run at time now marks failed, with the       *)
(* timeout message and a completion time, every execution that is running  *)
(* and started before now minus three minutes, each exactly once, and      *)
(* writes no other execution: not one that is running and started at or    *)
(* after now minus three minutes, not one that is succeeded or failed.     *)
(* (The store calls of the pass succeed; their failure is C10.)            *)
(***************************************************************************)
\* the read selects exactly the stuck executions, each once, and writes nothing
C1_Read(c) ==
  Steps(c, "idle") /\ pc'[c] # "done" /\ ~CallFailed =>
    /\ SeqToSet(stuck'[c].rows) = {e \in ExecIds : /\ executions[e].status = "running"
                                                   /\ executions[e].started_at < now - 3}
    /\ Cardinality(SeqToSet(stuck'[c].rows)) = Len(stuck'[c].rows)
    /\ stuck'[c].i = 1
    /\ executions' = executions

\* a turn of the loop writes the next selected execution, and only it
C1_Write(c) ==
  Steps(c, "reconcile") =>
    LET e == stuck[c].rows[stuck[c].i]
    IN /\ stuck'[c] = [rows |-> stuck[c].rows, i |-> stuck[c].i + 1]
       /\ (pc'[c] = "reconcile") = (stuck[c].i < Len(stuck[c].rows))
       /\ ~CallFailed =>
            /\ executions'[e].status = "failed"
            /\ executions'[e].completed_at = now
            /\ executions'[e].error_message = TimeoutMessage
            /\ executions'[e].scout_id = executions[e].scout_id
            /\ executions'[e].started_at = executions[e].started_at
       /\ Len(executions') = Len(executions)
       /\ \A f \in ExecIds \ {e} : executions'[f] = executions[f]

\* after the pass every selected execution is failed by timeout
C1_After(c) ==
  ReconcileDone(c) /\ faults[c] \cap ReconcileFaults = {} =>
    \A k \in 1..Len(stuck[c].rows) :
      /\ executions[stuck[c].rows[k]].status = "failed"
      /\ executions[stuck[c].rows[k]].error_message = TimeoutMessage
      /\ executions[stuck[c].rows[k]].completed_at # NoTime

\* C1: the pass fails exactly the stuck executions, each once, and no other
C1_ReconcilePass ==
  /\ [](\A c \in Cycles : C1_After(c))
  /\ [][\A c \in Cycles : C1_Read(c) /\ C1_Write(c)]_vars

\* a pass at T0 has failed execution 1, four minutes old, and has left execution 2,
\* exactly three minutes old, running, and the terminal executions 3 and 4 as they were
C1_Witness ==
  \E c \in Cycles :
    /\ pc[c] = "sweep_select"
    /\ stuck[c].rows = <<1>>
    /\ executions[1].status = "failed" /\ executions[1].completed_at = now
    /\ executions[2].status = "running" /\ executions[2].started_at = now - 3
    /\ executions[3].status = "succeeded"
    /\ executions[4].status = "failed" /\ executions[4].error_message # TimeoutMessage

(***************************************************************************)
(* C2.  Over any interleaving of executions and overlapping invocations,   *)
(* an execution record leaves running exactly once and a terminal record   *)
(* is never written again: not by the Reconciler after the execution       *)
(* collaborator completed it, not by a second reconciliation.              *)
(***************************************************************************)
\* C2: a record that is succeeded or failed is never written again
C2_TerminalNeverOverwritten ==
  [][\A e \in ExecIds : executions[e].status # "running" => executions'[e] = executions[e]]_vars

(***************************************************************************)
(* C3.  When every execution of a cron run set of N scouts has ended, one  *)
(* failed (thrown) and the others succeeded, the invocation has answered   *)
(* with the success report, which lists all N scouts.                      *)
(***************************************************************************)
Settled(c) ==
  /\ scoutsToRun[c] # <<>>
  /\ \A s \in RunIds(scoutsToRun[c]) : inv[c][s].state \in {"fulfilled", "rejected"}

Rejected(c) == {s \in RunIds(scoutsToRun[c]) : inv[c][s].state = "rejected"}

\* C3: one failure among N executions leaves the report of all N in place
C3_OneFailureIsolated ==
  \A c \in Cycles :
    /\ req[c] = NoScoutId
    /\ Len(scoutsToRun[c]) >= 2
    /\ Settled(c)
    /\ Cardinality(Rejected(c)) = 1
    => /\ response[c].status = 200
       /\ response[c].scoutsExecuted = Len(scoutsToRun[c])
       /\ {response[c].scouts[i].id : i \in 1..Len(response[c].scouts)} = RunIds(scoutsToRun[c])

(***************************************************************************)
(* C4.  The response of an invocation, success or failure, is returned     *)
(* only after every execution it started has completed or failed.          *)
(***************************************************************************)
InFlight(c) == {s \in ScoutIds : inv[c][s].state \in {"started", "running"}}

\* C4: no response while an execution of the invocation is in flight
C4_FanInBarrier ==
  \A c \in Cycles : response[c] # NoResponse => InFlight(c) = {}

(***************************************************************************)
(* C5.  A sweep pass at time now switches off every active scout whose     *)
(* owner's last sign-in is before now minus thirty days, and leaves the    *)
(* active flag of every scout whose owner signed in at or after that time  *)
(* as it is.  (The store calls of the pass succeed.)                       *)
(***************************************************************************)
SweepDone(c) == pc[c] \in {"select", "await_all"} \/ (pc[c] = "done" /\ Len(stages[c]) >= 2)

SweepFaults == {"sweep_read", "sweep_write", "lookup_error", "lookup_throw"}

Owner(s) == authUsers[scouts[s].user_id]

SignedInBefore(user, time) ==
  user.exists /\ user.last_sign_in_at # NoTime /\ user.last_sign_in_at < time

\* after the pass no scout of an owner who signed in before the threshold is active
C5_After(c) ==
  SweepDone(c) /\ faults[c] \cap SweepFaults = {} =>
    \A s \in ScoutIds : SignedInBefore(Owner(s), sweep[c].thirtyDaysAgo) => ~scouts[s].is_active

\* the threshold of the pass is thirty days before its start
C5_Threshold(c) ==
  Steps(c, "sweep_select") => sweep'[c].thirtyDaysAgo = now - 30 * 24 * 60

\* a scout is written only by the bulk update of a sweep whose threshold its owner's
\* last sign-in precedes, and only switched off
C5_Frame(s) ==
  scouts'[s] # scouts[s] =>
    \E c \in Cycles :
      /\ Steps(c, "sweep_disable")
      /\ SignedInBefore(Owner(s), sweep[c].thirtyDaysAgo)
      /\ scouts[s].is_active
      /\ scouts'[s] = [scouts[s] EXCEPT !.is_active = FALSE]

\* C5: the sweep switches off the scouts of the owners past the threshold, and no other
C5_SweepPass ==
  /\ [](\A c \in Cycles : C5_After(c))
  /\ [][/\ \A c \in Cycles : C5_Threshold(c)
        /\ \A s \in ScoutIds : C5_Frame(s)]_vars

\* a sweep a minute after T0 has switched off scout 1, whose owner signed in thirty
\* days and a minute before, and has left scout 2, whose owner signed in two minutes ago
C5_Witness ==
  \E c \in Cycles :
    /\ pc[c] = "select"
    /\ faults[c] = {}
    /\ sweep[c].thirtyDaysAgo = authUsers["u1"].last_sign_in_at + 1
    /\ ~scouts[1].is_active
    /\ scouts[2].is_active /\ ~SignedInBefore(Owner(2), sweep[c].thirtyDaysAgo)

(***************************************************************************)
(* C6.  As claimed: in a sweep, an account that owns an active scout and   *)
(* whose last-sign-in lookup answers not found (no such account, or no     *)
(* last-sign-in value) is marked dormant and its active scouts are         *)
(* switched off by that sweep.                                             *)
(***************************************************************************)
NotFound(user) == ~user.exists \/ user.last_sign_in_at = NoTime

\* C6, as claimed: after the sweep the scouts of a not-found account are switched off
C6_NotFoundIsDormant ==
  \A c \in Cycles :
    SweepDone(c) /\ faults[c] \cap SweepFaults = {} =>
      \A s \in ScoutIds : NotFound(Owner(s)) => ~scouts[s].is_active

(***************************************************************************)
(* C6, amended.  Such an account is not marked dormant: a lookup that      *)
(* answers not found skips the account, an account with no last-sign-in    *)
(* value is never put in the dormant set, and the sweep leaves the         *)
(* account's scouts as they are.                                           *)
(***************************************************************************)
C6_Lookup(c) ==
  Steps(c, "sweep_lookup") =>
    LET userId == sweep[c].users[sweep[c].i]
    IN /\ ~authUsers[userId].exists => userId \in sweep'[c].skipped
       /\ NotFound(authUsers[userId]) => sweep'[c].inactive = sweep[c].inactive

\* C6, amended: a not-found account is never dormant and its scouts are never written
C6_NotFoundIsSkipped ==
  /\ [](\A c \in Cycles : \A k \in 1..Len(sweep[c].inactive) :
          ~NotFound(authUsers[sweep[c].inactive[k]]))
  /\ [][/\ \A c \in Cycles : C6_Lookup(c)
        /\ \A s \in ScoutIds : NotFound(Owner(s)) => scouts'[s] = scouts[s]]_vars

\* a sweep has looked up u3 (never signed in) and u4 (no account), has switched off
\* the scout of the dormant u1 and has left scouts 3 and 5 active
C6_Witness ==
  \E c \in Cycles :
    /\ pc[c] = "select"
    /\ faults[c] = {}
    /\ sweep[c].users = <<"u1", "u2", "u3", "u4">>
    /\ sweep[c].inactive = <<"u1">>
    /\ "u4" \in sweep[c].skipped
    /\ ~scouts[1].is_active
    /\ scouts[3].is_active /\ scouts[5].is_active

(***************************************************************************)
(* C7.  A manual trigger whose scout id is unknown, whose scout is not     *)
(* active or whose scout lacks a title, goal, description, location,       *)
(* frequency or any search query ends in a status 500 response whose       *)
(* message names the precondition that is violated, and executeScoutAgent  *)
(* is called for no scout in that invocation.                              *)
(***************************************************************************)
Unknown(scoutId) == scoutId \notin ScoutIds

NotActive(scoutId) == scoutId \in ScoutIds /\ ~scouts[scoutId].is_active

Incomplete(scoutId) ==
  /\ scoutId \in ScoutIds
  /\ \/ scouts[scoutId].title = ""
     \/ scouts[scoutId].goal = ""
     \/ scouts[scoutId].description = ""
     \/ scouts[scoutId].location = ""
     \/ scouts[scoutId].frequency = ""
     \/ Len(scouts[scoutId].search_queries) = 0

SelectionMessages(scoutId) ==
  (IF Unknown(scoutId) THEN {"not found in database"} ELSE {})
  \cup (IF NotActive(scoutId) THEN {"is not active. Please activate it in the settings."} ELSE {})
  \cup (IF Incomplete(scoutId) THEN {"configuration is not complete"} ELSE {})

NeverInvoked(calls) == \A s \in ScoutIds : calls[s].state = "none"

C7_Select(c) ==
  Steps(c, "select") /\ req[c] # NoScoutId /\ SelectionMessages(req[c]) # {} =>
    /\ pc'[c] = "done"
    /\ response'[c].status = 500
    /\ response'[c].error.scoutId = req[c]
    /\ ~CallFailed => response'[c].error.message \in SelectionMessages(req[c])
    /\ NeverInvoked(inv'[c])
    /\ executions' = executions

AllSelectionMessages ==
  {"not found in database", "is not active. Please activate it in the settings.",
   "configuration is not complete"}

\* C7: a manual trigger that violates a precondition fails and executes nothing
C7_ManualTriggerFails ==
  /\ [](\A c \in Cycles :
          response[c].status = 500 /\ response[c].error.message \in AllSelectionMessages
          => NeverInvoked(inv[c]) /\ pc[c] = "done" /\ req[c] # NoScoutId)
  /\ [][\A c \in Cycles : C7_Select(c)]_vars

\* scout 2, active, with a location but no search query, asked for by hand
C7_Witness ==
  \E c \in Cycles :
    /\ req[c] = 2
    /\ scouts[2].is_active
    /\ scouts[2].search_queries = <<>>
    /\ response[c] = ErrorResponse(Error("configuration is not complete", 2))
    /\ NeverInvoked(inv[c])

(***************************************************************************)
(* C8.  A manual trigger that names a scout that exists, is active and     *)
(* has a complete configuration yields the run set of exactly that scout,  *)
(* and the scout is executed in this invocation whether it is due or not.  *)
(* (The read of the scout succeeds.)                                       *)
(***************************************************************************)
C8_Select(c) ==
  /\ Steps(c, "select")
  /\ req[c] \in ScoutIds
  /\ scouts[req[c]].is_active
  /\ ~Incomplete(req[c])
  /\ ~CallFailed
  => /\ scoutsToRun'[c] = <<scouts[req[c]]>>
     /\ \A s \in ScoutIds : inv'[c][s].state = IF s = req[c] THEN "started" ELSE "none"
     /\ pc'[c] = "await_all"
     /\ response'[c] = NoResponse

\* C8: a valid manual trigger runs exactly its scout, due or not
C8_ManualTriggerRuns ==
  /\ [](\A c \in Cycles : req[c] # NoScoutId =>
          /\ RunIds(scoutsToRun[c]) \subseteq {req[c]}
          /\ \A s \in ScoutIds : inv[c][s].state # "none" <=> s \in RunIds(scoutsToRun[c]))
  /\ [][\A c \in Cycles : C8_Select(c)]_vars

\* scout 5, which failed ten minutes ago and is not due, is executed by hand
C8_Witness ==
  \E c \in Cycles :
    /\ req[c] = 5
    /\ scoutsToRun[c] = <<scouts[5]>>
    /\ inv[c][5].state = "started"
    /\ ~shouldRunScout(scouts[5])

(***************************************************************************)
(* C9.  As claimed: in a cron invocation a failed store read or write in   *)
(* any stage, the load of the active scouts for selection included, is     *)
(* recovered locally and the invocation still ends in a non-failure        *)
(* response; only a configuration error makes it answer 500.  (A 500 that  *)
(* a thrown execution causes is C3 and is left out here.)                  *)
(***************************************************************************)
ConfigMessage == "Supabase configuration missing"

\* C9, as claimed: a cron invocation answers 500 only for a configuration error
C9_OnlyConfigurationFails ==
  \A c \in Cycles :
    req[c] = NoScoutId /\ response[c].status = 500 /\ Rejected(c) = {}
    => response[c].error.message = ConfigMessage

(***************************************************************************)
(* C9, amended.  In a cron invocation a failed store call of the reconcile *)
(* or sweep stage has no effect and the invocation goes on; a failed load  *)
(* of the active scouts for selection is thrown and ends the invocation    *)
(* with status 500.  A cron invocation answers 500 for a configuration     *)
(* error, for a failed selection load, or for a thrown execution.          *)
(***************************************************************************)
C9_Recovered(c) ==
  /\ req[c] = NoScoutId
  /\ \E at \in {"idle", "reconcile", "sweep_select", "sweep_lookup", "sweep_disable"} : Steps(c, at)
  /\ CallFailed
  => /\ pc'[c] # "done"
     /\ response'[c] = NoResponse
     /\ scouts' = scouts
     /\ executions' = executions

C9_Response(c) ==
  req[c] = NoScoutId /\ response[c] # NoResponse =>
    /\ response[c].status \in {200, 500}
    /\ "select_read" \in faults[c] <=> response[c].error.message = "store error"
    /\ "select_read" \in faults[c] => response[c].status = 500 /\ NeverInvoked(inv[c])
    /\ response[c].status = 500 =>
         response[c].error.message \in {ConfigMessage, "store error", "execution failed"}
    /\ response[c].error.message = "execution failed" =>
         inv[c][response[c].error.scoutId].state = "rejected"
    /\ response[c].error.message = ConfigMessage => stages[c] = <<>> /\ faults[c] = {}

\* C9, amended: reconcile and sweep failures are recovered, a selection load failure is not
C9_StoreFailures ==
  /\ [](\A c \in Cycles : C9_Response(c))
  /\ [][\A c \in Cycles : C9_Recovered(c)]_vars

\* a cron invocation whose load of the active scouts failed has answered 500
C9_Witness ==
  \E c \in Cycles :
    /\ req[c] = NoScoutId
    /\ "select_read" \in faults[c]
    /\ stages[c] = <<"reconcile", "sweep", "select">>
    /\ response[c] = ErrorResponse(Error("store error", NoScoutId))

(***************************************************************************)
(* C10.  A failed read of the stuck executions, or a failed write while    *)
(* marking one failed, reconciles nothing for that record or cycle and     *)
(* never aborts the invocation: the sweep and the selection still run,     *)
(* the dispatch runs unless the selection itself fails, and a 500 answer   *)
(* has another cause.                                                      *)
(***************************************************************************)
C10_Step(c) ==
  (Steps(c, "idle") \/ Steps(c, "reconcile")) /\ CallFailed =>
    /\ executions' = executions
    /\ response'[c] = NoResponse
    /\ pc'[c] \in {"reconcile", "sweep_select"}
    /\ pc[c] = "idle" => stuck'[c].rows = <<>>

C10_After(c) ==
  faults[c] \cap ReconcileFaults # {} /\ response[c] # NoResponse =>
    /\ Len(stages[c]) >= 3
    /\ SubSeq(stages[c], 1, 3) = <<"reconcile", "sweep", "select">>
    /\ response[c].status = 200 => stages[c] = <<"reconcile", "sweep", "select", "dispatch", "report">>
    /\ response[c].status = 500 =>
         \/ req[c] # NoScoutId /\ response[c].error.message \in AllSelectionMessages
         \/ "select_read" \in faults[c] /\ response[c].error.message = "store error"
         \/ /\ response[c].error.message = "execution failed"
            /\ inv[c][response[c].error.scoutId].state = "rejected"
            /\ stages[c] = <<"reconcile", "sweep", "select", "dispatch">>

\* C10: a reconcile failure has no effect and aborts nothing
C10_ReconcileFailureRecovered ==
  /\ [](\A c \in Cycles : C10_After(c))
  /\ [][\A c \in Cycles : C10_Step(c)]_vars

\* the write that marks execution 1 failed has failed; the invocation has swept,
\* selected, run a scout and answered 200, and execution 1 is still running
C10_Witness ==
  \E c \in Cycles :
    /\ "reconcile_write" \in faults[c]
    /\ stuck[c].rows # <<>>
    /\ executions[1].status = "running"
    /\ response[c].status = 200
    /\ response[c].scoutsExecuted >= 1

(***************************************************************************)
(* C11.  In a sweep, an owner whose getUserById lookup fails, by an error  *)
(* result or by a thrown exception, is skipped: none of the owner's scouts *)
(* is switched off by this invocation, the owner is looked up once only,   *)
(* and every other owner read at the start of the sweep is still looked up *)
(* and, when inactive, has the active scouts switched off.                 *)
(***************************************************************************)
LookupFaults == {"lookup_error", "lookup_throw"}

\* a failed lookup skips the owner, marks nobody inactive and goes to the next owner
C11_Lookup(c) ==
  Steps(c, "sweep_lookup") /\ CallFailed =>
    LET userId == sweep[c].users[sweep[c].i]
    IN /\ sweep'[c].skipped = sweep[c].skipped \cup {userId}
       /\ sweep'[c].inactive = sweep[c].inactive
       /\ sweep'[c].i = sweep[c].i + 1
       /\ sweep'[c].users = sweep[c].users
       /\ scouts' = scouts
       /\ response'[c] = NoResponse
       /\ pc'[c] = IF sweep[c].i < Len(sweep[c].users) THEN "sweep_lookup"
                   ELSE IF sweep[c].inactive # <<>> THEN "sweep_disable"
                   ELSE "select"

\* the bulk update writes no scout of a skipped owner
C11_Disable(c) ==
  Steps(c, "sweep_disable") =>
    \A s \in ScoutIds : scouts[s].user_id \in sweep[c].skipped => scouts'[s] = scouts[s]

\* each owner is in the list once, a skipped owner is never in the inactive list, and
\* once the loop is over every owner of the list has been looked up
C11_Pass(c) ==
  /\ Cardinality(SeqToSet(sweep[c].users)) = Len(sweep[c].users)
  /\ sweep[c].skipped \cap SeqToSet(sweep[c].inactive) = {}
  /\ sweep[c].skipped \subseteq {sweep[c].users[k] : k \in 1..(sweep[c].i - 1)}
  /\ pc[c] = "sweep_disable" \/ SweepDone(c) => sweep[c].i = Len(sweep[c].users) + 1

\* after a sweep whose read and bulk update succeeded, every owner of the list that was
\* not skipped and is inactive has no active scout
C11_After(c) ==
  SweepDone(c) /\ faults[c] \cap {"sweep_read", "sweep_write"} = {} =>
    \A u \in SeqToSet(sweep[c].users) \ sweep[c].skipped :
      IsInactiveUser(authUsers[u], sweep[c].thirtyDaysAgo) =>
        \A s \in ScoutIds : scouts[s].user_id = u => ~scouts[s].is_active

\* C11: a failed lookup skips its owner and no other
C11_LookupFailureSkips ==
  /\ [](\A c \in Cycles : C11_Pass(c) /\ C11_After(c))
  /\ [][\A c \in Cycles : C11_Lookup(c) /\ C11_Disable(c)]_vars

\* the lookup of u2 failed; the sweep went on to u3 and u4, switched off scout 1 of the
\* inactive u1 and left scout 2 of u2 active
C11_Witness ==
  \E c \in Cycles :
    /\ faults[c] \cap LookupFaults # {}
    /\ "u2" \in sweep[c].skipped
    /\ sweep[c].users = <<"u1", "u2", "u3", "u4">>
    /\ sweep[c].inactive = <<"u1">>
    /\ pc[c] = "select"
    /\ ~scouts[1].is_active
    /\ scouts[2].is_active

(***************************************************************************)
(* C12.  Every scout that the cron branch puts in scoutsToRun is, when it  *)
(* is selected, active and complete: title, goal, description and location *)
(* present, at least one search query, and a frequency.  (scoutsToRun      *)
(* holds the rows as the selection read them.)                             *)
(***************************************************************************)
\* C12: the run set of a cron trigger holds active, complete scouts only
C12_CronRunSetComplete ==
  \A c \in Cycles :
    req[c] = NoScoutId =>
      \A i \in 1..Len(scoutsToRun[c]) :
        scoutsToRun[c][i].is_active /\ IsComplete(scoutsToRun[c][i])

(***************************************************************************)
(* C13.  A success response (status 200) has success set, scoutsExecuted   *)
(* equal to the size of the run set, and exactly one entry, id and title,  *)
(* for every scout of the run set and for no other scout.  A failure       *)
(* response has status 500 and carries an error message.                   *)
(***************************************************************************)
ReportedIds(c) == {response[c].scouts[i].id : i \in 1..Len(response[c].scouts)}

C13_Success(c) ==
  response[c].status = 200 =>
    /\ response[c].success
    /\ response[c].error = NoError
    /\ response[c].scoutsExecuted = Len(scoutsToRun[c])
    /\ Len(response[c].scouts) = Len(scoutsToRun[c])
    /\ Cardinality(ReportedIds(c)) = Len(response[c].scouts)
    /\ ReportedIds(c) = RunIds(scoutsToRun[c])
    /\ \A i \in 1..Len(response[c].scouts) :
         /\ response[c].scouts[i].id = scoutsToRun[c][i].id
         /\ response[c].scouts[i].title = scoutsToRun[c][i].title
         /\ DOMAIN response[c].scouts[i] = {"id", "title"}

C13_Failure(c) ==
  response[c].status # 200 /\ response[c] # NoResponse =>
    /\ response[c].status = 500
    /\ ~response[c].success
    /\ response[c].error.message # ""
    /\ response[c].scouts = <<>>

\* C13: the success report lists the run set, the failure response has status 500
C13_ResponseShape ==
  \A c \in Cycles : C13_Success(c) /\ C13_Failure(c)

\* a cron invocation has run scouts 1 and 2 and has reported both
C13_Witness ==
  \E c \in Cycles :
    /\ response[c].status = 200
    /\ response[c].scoutsExecuted = 2
    /\ ReportedIds(c) = {1, 2}
    /\ \A s \in {1, 2} : inv[c][s].state = "fulfilled"

(***************************************************************************)
(* C14.  The report of a successful invocation carries, besides the count  *)
(* of scouts and the identity and status of each, two counters: the        *)
(* executions reconciled and the scouts switched off by the sweep of that  *)
(* invocation.                                                             *)
(***************************************************************************)
\* the fields of the report other than the outcome, the count and the list of scouts
ReportCounters(c) ==
  DOMAIN response[c] \ {"status", "success", "error", "scoutsExecuted", "scouts"}

\* C14: the report has the two counters and a status for each scout
C14_ReportHasCounters ==
  \A c \in Cycles :
    response[c].status = 200 =>
      /\ Cardinality(ReportCounters(c)) >= 2
      /\ \A i \in 1..Len(response[c].scouts) : "status" \in DOMAIN response[c].scouts[i]

(***************************************************************************)
(* C15.  sendSlackNotification never throws to its caller: when the read   *)
(* of the preferences fails or throws, when no webhook URL is stored, when *)
(* the URL does not match the Slack webhook pattern, when the POST answers *)
(* a status that is not OK and when the POST throws, its promise is        *)
(* fulfilled.  It POSTs only to a stored URL that matches the pattern.     *)
(***************************************************************************)
\* the URLs of WebhookUrls that are Slack webhooks
SlackWebhooks == {SlackUrl}

C15_Call(n) ==
  /\ slack[n].promise \in {"pending", "fulfilled"}
  /\ slack[n].pc = "done" <=> slack[n].promise = "fulfilled"
  /\ slack[n].pc = "done" => slack[n].log \in {"error", "no webhook", "invalid", "sent", "failed"}
  /\ Len(slack[n].posts) <= 1
  /\ \A i \in 1..Len(slack[n].posts) :
       /\ slack[n].posts[i] \in SlackWebhooks
       /\ slack[n].posts[i] # NoUrl
       /\ slack[n].posts[i] = preferences[slack[n].user_id].slack_webhook_url
  /\ slack[n].log \in {"sent", "failed"} => Len(slack[n].posts) = 1

C15_Step(n) ==
  slack'[n] # slack[n] =>
    /\ slack'[n].promise # "rejected"
    /\ /\ slack[n].pc = "preferences"
       /\ preferences[slack[n].user_id].slack_webhook_url \notin SlackWebhooks
       => /\ slack'[n].pc = "done"
          /\ slack'[n].promise = "fulfilled"
          /\ slack'[n].posts = <<>>
    /\ slack[n].pc = "preferences" /\ slack'[n].pc = "done" => slack'[n].posts = <<>>
    /\ slack[n].pc = "post" =>
         /\ slack'[n].pc = "done"
         /\ slack'[n].promise = "fulfilled"
         /\ slack'[n].posts = slack[n].posts

\* C15: every call ends fulfilled, and POSTs only to a stored Slack webhook
C15_NeverPropagates ==
  /\ [](\A n \in Notifications : C15_Call(n))
  /\ [][\A n \in Notifications : C15_Step(n)]_vars

\* the POST of one call threw and the call returned; the other call found a stored
\* URL that is no Slack webhook and returned without a POST
C15_Witness ==
  /\ slack["n1"].log = "error" /\ Len(slack["n1"].posts) = 1
  /\ slack["n1"].promise = "fulfilled"
  /\ slack["n2"].log = "invalid" /\ slack["n2"].posts = <<>>
  /\ slack["n2"].promise = "fulfilled"
  /\ preferences["u2"].slack_webhook_url.rest = "/x"

(***************************************************************************)
(* C16.  As claimed: after a successful code exchange the auth callback    *)
(* calls createFirecrawlKeyForUser exactly when the account has no stored  *)
(* key or a key whose status is not active.                                *)
(***************************************************************************)
\* the request k answers, after a successful exchange, in this step
Redirects(k) == callback[k].session /\ callback[k].pc # "done" /\ callback'[k].pc = "done"

StoredKeyNeeded(userId) ==
  \/ preferences[userId].firecrawl_api_key = ""
  \/ preferences[userId].firecrawl_key_status # "active"

\* C16, as claimed: the key is created exactly when the account has no active key
C16_CreatedIffNoActiveKey ==
  [][\A k \in Callbacks :
       Redirects(k) =>
         (callback'[k].provisioning = "pending" <=> StoredKeyNeeded(CallbackUser))]_vars

(***************************************************************************)
(* C16, amended.  After a successful code exchange createFirecrawlKeyForUser *)
(* is called exactly when getUser gave a user with an id and an email and  *)
(* the read of the preferences gave no row (none stored, or the read       *)
(* failed), no key, or a key status that is not active.  The call is never *)
(* awaited: the redirect is decided in the step that makes the call.  Its  *)
(* failure never changes the outcome: the redirect after a successful      *)
(* exchange is the one lines 42-47 compute from pendingQuery and           *)
(* redirectTo, whether the creation succeeds, fails or is not called.      *)
(***************************************************************************)
C16_Created(k) ==
  Redirects(k) =>
    /\ callback'[k].provisioning \in {"none", "pending"}
    /\ callback'[k].provisioning = "pending" <=>
         /\ callback'[k].user.id # "" /\ callback'[k].user.email # ""
         /\ callback'[k].read = "no row" \/ StoredKeyNeeded(callback'[k].user.id)
    /\ callback'[k].redirect = SuccessRedirect(callback[k].redirectTo, callback[k].pendingQuery)

\* the end of the creation leaves the request as it answered
C16_Settled(k) ==
  callback[k].provisioning = "pending" /\ callback'[k].provisioning # "pending" =>
    /\ callback'[k].provisioning \in {"fulfilled", "rejected"}
    /\ callback'[k] = [callback[k] EXCEPT !.provisioning = callback'[k].provisioning]

C16_Outcome(k) ==
  /\ callback[k].provisioning # "none" => callback[k].pc = "done" /\ callback[k].session
  /\ callback[k].pc = "done" =>
       callback[k].redirect = IF callback[k].session
                              THEN SuccessRedirect(callback[k].redirectTo, callback[k].pendingQuery)
                              ELSE ErrorRedirect
  /\ callback[k].pc # "done" => callback[k].redirect = NoRedirect
  /\ callback[k].redirect.path = "/" /\ callback[k].pendingQuery # <<>> =>
       /\ Len(callback[k].redirect.pendingQuery) = Len(callback[k].pendingQuery)
       /\ \A i \in 1..Len(callback[k].pendingQuery) :
            callback[k].redirect.pendingQuery[i] \notin {" ", "&"}

\* C16, amended: the key creation is called for a user without an active key as read,
\* is not awaited and does not change the redirect
C16_ProvisioningDetached ==
  /\ [](\A k \in Callbacks : C16_Outcome(k))
  /\ [][\A k \in Callbacks : C16_Created(k) /\ C16_Settled(k)]_vars

\* request k1 was redirected with its pending query and its key creation failed
\* afterwards; request k2, of the same account with an active key read, was redirected
\* to its target without a key creation
C16_Witness ==
  /\ callback["k1"].provisioning = "rejected"
  /\ callback["k1"].redirect = Redirect("/", <<"a", "%20", "%26">>)
  /\ callback["k2"].pc = "done" /\ callback["k2"].session
  /\ callback["k2"].read = "row"
  /\ callback["k2"].provisioning = "none"
  /\ callback["k2"].redirect = Redirect("/scouts", <<>>)

(***************************************************************************)
(* C17.  Within one invocation the stages are entered in the order         *)
(* reconcile, sweep, select, dispatch, report, each after the one before   *)
(* it is over: every reconcile write of the invocation precedes its        *)
(* selection, and executeScoutAgent is called for no scout before the bulk *)
(* update of the sweep has been made.                                      *)
(***************************************************************************)
StageOrder == <<"reconcile", "sweep", "select", "dispatch", "report">>

\* the stages entered are a prefix of the order, and fit the handler's position
C17_Stages(c) ==
  /\ Len(stages[c]) <= Len(StageOrder)
  /\ stages[c] = SubSeq(StageOrder, 1, Len(stages[c]))
  /\ pc[c] = "reconcile" => stages[c] = <<"reconcile">> /\ stuck[c].i <= Len(stuck[c].rows)
  /\ pc[c] = "sweep_select" => stages[c] = <<"reconcile">>
  /\ pc[c] \in {"sweep_lookup", "sweep_disable", "select"} => stages[c] = <<"reconcile", "sweep">>
  /\ pc[c] = "await_all" => stages[c] = SubSeq(StageOrder, 1, 4)
  /\ (\E s \in ScoutIds : inv[c][s].state # "none") =>
       /\ Len(stages[c]) >= 4
       /\ pc[c] \in {"await_all", "done"}
  /\ response[c].status = 200 <=> stages[c] = StageOrder

\* a stage is over when the next one starts
C17_Step(c) ==
  /\ Steps(c, "reconcile") \/ Steps(c, "idle") => scouts' = scouts /\ inv' = inv
  /\ pc[c] # "sweep_select" /\ pc'[c] = "sweep_select" =>
       /\ pc[c] \in {"idle", "reconcile"}
       /\ stuck'[c].i = Len(stuck'[c].rows) + 1
  /\ pc[c] # "select" /\ pc'[c] = "select" =>
       /\ sweep'[c].i = Len(sweep'[c].users) + 1
       /\ \/ pc[c] = "sweep_disable"
          \/ pc[c] = "sweep_lookup" /\ sweep'[c].inactive = <<>>
          \/ pc[c] = "sweep_select" /\ sweep'[c].users = <<>>
  /\ Steps(c, "select") =>
       /\ stuck[c].i = Len(stuck[c].rows) + 1
       /\ sweep[c].i = Len(sweep[c].users) + 1
       /\ executions' = executions /\ scouts' = scouts
  /\ pc[c] \in {"select", "await_all", "done"} =>
       /\ stuck'[c] = stuck[c] /\ sweep'[c] = sweep[c]
       /\ scouts' = scouts
       /\ \A e \in ExecIds : executions'[e].error_message = TimeoutMessage
                             => executions[e].error_message = TimeoutMessage

\* C17: the stages of an invocation follow one another in order
C17_StagesInOrder ==
  /\ [](\A c \in Cycles : C17_Stages(c))
  /\ [][\A c \in Cycles : C17_Step(c)]_vars

\* an invocation has failed two stuck executions, switched off scout 1 of the inactive
\* u1, selected and run scout 2 and reported it
C17_Witness ==
  \E c \in Cycles :
    /\ stages[c] = StageOrder
    /\ Len(stuck[c].rows) = 2
    /\ sweep[c].inactive = <<"u1">> /\ ~scouts[1].is_active
    /\ response[c].scoutsExecuted >= 1
    /\ faults[c] = {}

(***************************************************************************)
(* C18.  Two overlapping cron invocations can both select and call         *)
(* executeScoutAgent for the same due scout: the selection of an           *)
(* invocation looks at the store only, and nothing an overlapping          *)
(* invocation holds keeps a due scout out of the run set.                  *)
(***************************************************************************)
NeverExecuted(s) == \A e \in ExecIds : executions[e].scout_id # s

\* the selection of a cron trigger takes every active scout with a frequency that has
\* no execution yet, whatever another invocation has selected, and touches no state
\* of another invocation
C18_Select(c) ==
  Steps(c, "select") /\ req[c] = NoScoutId /\ ~CallFailed =>
    /\ \A s \in ScoutIds :
         scouts[s].is_active /\ scouts[s].frequency # "" /\ NeverExecuted(s)
         => /\ s \in RunIds(scoutsToRun'[c])
            /\ inv'[c][s].state = "started"
    /\ \A d \in Cycles \ {c} :
         /\ inv'[d] = inv[d]
         /\ scoutsToRun'[d] = scoutsToRun[d]
         /\ pc'[d] = pc[d]

\* C18: an overlapping invocation does not keep a due scout out of the run set
C18_NoExclusion == [][\A c \in Cycles : C18_Select(c)]_vars

\* both invocations have selected scout 1 and each runs an execution of it
C18_Witness ==
  /\ req["c1"] = NoScoutId /\ req["c2"] = NoScoutId
  /\ 1 \in RunIds(scoutsToRun["c1"]) \cap RunIds(scoutsToRun["c2"])
  /\ inv["c1"][1].state = "running" /\ inv["c2"][1].state = "running"
  /\ inv["c1"][1].exec # inv["c2"][1].exec
  /\ \A c \in Cycles : /\ executions[inv[c][1].exec].scout_id = 1
                       /\ executions[inv[c][1].exec].status = "running"

(***************************************************************************)
(* C19.  The bulk update of the sweep is applied only to scouts that are   *)
(* active when it is made and whose owner is in inactiveUserIds: a scout   *)
(* that is inactive already, one switched off after the owners were read   *)
(* included, is not written.  No step of the handler switches a scout on   *)
(* or deletes one.                                                         *)
(***************************************************************************)
C19_Update(c) ==
  Steps(c, "sweep_disable") =>
    LET target == {s \in ScoutIds : /\ scouts[s].is_active
                                    /\ \E i \in 1..Len(sweep[c].inactive) :
                                         sweep[c].inactive[i] = scouts[s].user_id}
    IN /\ sweep'[c].written \subseteq target
       /\ ~CallFailed => sweep'[c].written = target
       /\ \A s \in sweep'[c].written : scouts'[s] = [scouts[s] EXCEPT !.is_active = FALSE]
       /\ \A s \in ScoutIds \ sweep'[c].written : scouts'[s] = scouts[s]

C19_Frame(s) ==
  /\ ~scouts[s].is_active => ~scouts'[s].is_active
  /\ [scouts'[s] EXCEPT !.is_active = scouts[s].is_active] = scouts[s]
  /\ scouts'[s] # scouts[s] => \E c \in Cycles : Steps(c, "sweep_disable") /\ s \in sweep'[c].written

\* C19: the bulk update writes active scouts of inactive owners only; no scout is
\* switched on or deleted
C19_BulkUpdateScope ==
  /\ [](DOMAIN scouts = ScoutIds)
  /\ [][/\ \A c \in Cycles : C19_Update(c)
        /\ DOMAIN scouts' = DOMAIN scouts
        /\ \A s \in ScoutIds : C19_Frame(s)]_vars

\* both invocations read u1 as inactive; the bulk update of one switched scout 1 off,
\* the bulk update of the other, made afterwards, was applied to no scout
C19_Witness ==
  \E c, d \in Cycles :
    /\ c # d
    /\ sweep[c].inactive = <<"u1">> /\ sweep[d].inactive = <<"u1">>
    /\ sweep[c].written = {1}
    /\ sweep[d].written = {}
    /\ pc[d] \in {"select", "await_all", "done"}
    /\ ~scouts[1].is_active /\ ~scouts[4].is_active

(***************************************************************************)
(* C20.  The reconcile stage writes execution records only: no scout's     *)
(* is_active, and no other field of a scout, differs between the state     *)
(* before and the state after the stage because of it.                     *)
(***************************************************************************)
\* a step of the stage leaves the scouts, the accounts and the preferences alone
C20_Step(c) ==
  Steps(c, "idle") \/ Steps(c, "reconcile") =>
    /\ scouts' = scouts
    /\ authUsers' = authUsers
    /\ preferences' = preferences
    /\ Len(executions') = Len(executions)

\* when the stage is over the scouts are those the invocation found
C20_After(c) ==
  pc[c] \in {"reconcile", "sweep_select"} =>
    /\ \A s \in ScoutIds : scouts[s].is_active <=> s # 4
    /\ \A s \in ScoutIds \ {2} : scouts[s] = ScoutRow(s, scouts[s].user_id, s # 4, "none")
    /\ \E missing \in {"none"} \cup ConfigFields : scouts[2] = ScoutRow(2, "u2", TRUE, missing)

\* C20: the reconcile stage writes no scout
C20_ReconcileWritesExecutionsOnly ==
  /\ [](\A c \in Cycles : C20_After(c))
  /\ [][\A c \in Cycles : C20_Step(c)]_vars

\* the stage has failed executions 1 and 2 of scout 3, and scout 3 is active as before
C20_Witness ==
  \E c \in Cycles :
    /\ pc[c] = "sweep_select"
    /\ executions[1].error_message = TimeoutMessage
    /\ executions[2].error_message = TimeoutMessage
    /\ scouts[3] = ScoutRow(3, "u3", TRUE, "none")

(***************************************************************************)
(* C21.  The sweep runs before the selection, so a manual trigger for a    *)
(* scout that is active and complete and whose owner's last sign-in is     *)
(* more than thirty days old does not run the scout: the sweep switches it *)
(* off, the selection fails with the "not active" error, and the scout is  *)
(* inactive after the invocation.  (The store calls of the sweep and the   *)
(* read of the selection succeed; their failure is C9 and C11.)            *)
(***************************************************************************)
NotActiveMessage == "is not active. Please activate it in the settings."

\* the bulk update switches the requested scout off
C21_Sweep(c) ==
  /\ Steps(c, "sweep_disable") /\ ~CallFailed
  /\ req[c] \in ScoutIds
  /\ scouts[req[c]].is_active
  /\ SignedInBefore(Owner(req[c]), sweep[c].thirtyDaysAgo)
  => /\ ~scouts'[req[c]].is_active
     /\ req[c] \in sweep'[c].written

\* the selection of a scout the sweep switched off fails and calls nothing
C21_Select(c) ==
  /\ Steps(c, "select") /\ ~CallFailed
  /\ req[c] \in ScoutIds
  /\ req[c] \in sweep[c].written
  => /\ response'[c] = ErrorResponse(Error(NotActiveMessage, req[c]))
     /\ pc'[c] = "done"
     /\ inv' = inv /\ scoutsToRun' = scoutsToRun
     /\ scouts' = scouts /\ executions' = executions

\* after the invocation the scout is inactive and was not run
C21_After(c) ==
  /\ req[c] \in ScoutIds
  /\ response[c] # NoResponse /\ stages[c] # <<>>
  /\ faults[c] \cap (SweepFaults \cup {"select_read"}) = {}
  /\ SignedInBefore(Owner(req[c]), sweep[c].thirtyDaysAgo)
  => /\ response[c].status = 500
     /\ response[c].error = Error(NotActiveMessage, req[c])
     /\ NeverInvoked(inv[c])
     /\ scoutsToRun[c] = <<>>
     /\ ~scouts[req[c]].is_active
     /\ \A e \in ExecIds : executions[e].scout_id = req[c] => executions[e].started_at < T0

\* C21: a manual trigger for the scout of an inactive owner fails as not active
C21_SweepBeforeManualSelect ==
  /\ [](\A c \in Cycles : C21_After(c))
  /\ [][\A c \in Cycles : C21_Sweep(c) /\ C21_Select(c)]_vars

\* scout 1, active and complete, was asked for a minute after its owner's thirtieth
\* day without a sign-in: the sweep switched it off and the answer is "not active"
C21_Witness ==
  \E c \in Cycles :
    /\ req[c] = 1
    /\ IsComplete(scouts[1])
    /\ sweep[c].written = {1}
    /\ sweep[c].thirtyDaysAgo = authUsers["u1"].last_sign_in_at + 1
    /\ response[c] = ErrorResponse(Error(NotActiveMessage, 1))
    /\ ~scouts[1].is_active
    /\ NeverInvoked(inv[c])

(***************************************************************************)
(* C22: the cooldown of the test notification                              *)
(***************************************************************************)
\* the requests whose POST was accepted by Slack
Accepted == {r \in TestRequests : testSlack[r].accepted}

Apart(a, b) == IF a >= b THEN a - b ELSE b - a

\* C22: two test notifications that Slack accepted are at least 60 seconds apart
C22_AcceptedCooldownApart ==
  \A r1, r2 \in Accepted :
    r1 # r2 => Apart(testSlack[r1].now, testSlack[r2].now) >= TEST_SLACK_COOLDOWN_MS

(***************************************************************************)
(* C23: what a refused test notification leaves alone                      *)
(***************************************************************************)
ErrorStatuses == {400, 401, 429}

\* the errors answered before the POST to Slack
RefusedEarly ==
  {"Not authenticated", "No Slack webhook URL configured", "Invalid webhook URL format",
   "Please wait"}

\* the step in which request r is answered with an error
AnswersError(r) ==
  /\ testSlack[r].response = NoTestResponse
  /\ testSlack'[r].response.status \in ErrorStatuses

\* the step in which request r writes the time of its test
WritesTimestamp(r) ==
  /\ testSlack[r].pc = "write" /\ testSlack[r].accepted
  /\ testSlack[r].fetchedAt # NoTime
  /\ testSlack'[r].response.status = 200
  /\ \A u \in Users \ {TestUser} : preferences'[u] = preferences[u]
  /\ preferences'[TestUser] \in
       {[preferences[TestUser] EXCEPT !.last_test_slack_at = testSlack[r].now],
        [PreferencesRow(testSlack[r].webhookUrl, "", "pending")
           EXCEPT !.last_test_slack_at = testSlack[r].now]}
  /\ preferences[TestUser].exists =>
       preferences'[TestUser].slack_webhook_url = preferences[TestUser].slack_webhook_url

\* a request answered with an error wrote nothing, and made no POST unless the
\* error is Slack's
C23_Refused(r) ==
  testSlack[r].response.status \in ErrorStatuses
  => /\ ~testSlack[r].wrote /\ ~testSlack[r].accepted
     /\ testSlack[r].response.error \in RefusedEarly \cup {"Slack returned error"}
     /\ testSlack[r].response.error \in RefusedEarly <=> testSlack[r].fetchedAt = NoTime
     /\ testSlack[r].response.status = 429 <=> testSlack[r].response.error = "Please wait"
     /\ testSlack[r].response.status = 401 <=> testSlack[r].response.error = "Not authenticated"

\* C23: an error response leaves the stored row as it is; the time of the test is
\* written only after Slack accepted the POST; 401, no URL, invalid URL and
\* cooldown make no POST
C23_ErrorLeavesPreferences ==
  /\ [](\A r \in TestRequests : C23_Refused(r))
  /\ [][/\ \A r \in TestRequests : AnswersError(r) => preferences' = preferences
        /\ preferences' # preferences => \E r \in TestRequests : WritesTimestamp(r)]_vars

\* one request was refused by the cooldown with no POST, the other was sent and
\* refused by Slack, and the row read by both still holds the earlier test
C23_Witness ==
  /\ testSlack["t1"].response = TestResponse(400, "Slack returned error", 0)
  /\ testSlack["t1"].fetchedAt # NoTime
  /\ testSlack["t1"].preferences.exists
  /\ testSlack["t2"].response.status = 429
  /\ testSlack["t2"].response.cooldownRemaining >= 1
  /\ testSlack["t2"].fetchedAt = NoTime
  /\ preferences[TestUser].slack_webhook_url = SlackUrl
  /\ preferences[TestUser].last_test_slack_at = TestStart - TEST_SLACK_COOLDOWN_MS + 500

====
